---- MODULE Spec2Model ----
(***************************************************************************)
(* Verification model of k8s-web-terminal (src/app): the Terminal Session  *)
(* Bridge of app/handlers/websocket_handler.py, the cluster adapter of     *)
(* app/services/k8s_service.py and the upload of                           *)
(* app/services/upload_service.py.                                         *)
(*                                                                         *)
(* Time is discrete, one tick = 15 s.  asyncio is cooperative: a task runs *)
(* without interruption from one await to the next.  A task whose pc is an *)
(* "internal" pc is the one running; every other task can only move when   *)
(* nobody is running (Idle).                                               *)
(*                                                                         *)
(* Strings are sequences of symbols.  The symbol "X101" stands for a run   *)
(* of 101 ordinary characters, a "J_..." symbol for the text of one JSON   *)
(* document.                                                               *)
(***************************************************************************)
EXTENDS Integers, Sequences, FiniteSets, TLC

VARIABLES now, cs, resp, ws, task, rl, wl, sup, hc, writes, faults,
          ks, up, term, fifo, sh

\* the session bridge; the cluster adapter (ks), the upload (up), the
\* formatting of one remote chunk (term) and the two directions of forwarding
\* with their histories (fifo), the cluster client shared by all sessions (sh)
bvars == <<now, cs, resp, ws, task, rl, wl, sup, hc, writes, faults>>
svars == <<ks, up, term, fifo, sh>>
vars == <<now, cs, resp, ws, task, rl, wl, sup, hc, writes, faults, ks, up, term,
          fifo, sh>>

(***************************************************************************)
(* Bounds and program constants                                            *)
(***************************************************************************)
\* config.websocket.idle_timeout / connection_timeout (environment
\* WS_IDLE_TIMEOUT, WS_CONNECTION_TIMEOUT), in ticks
IdleTimeout == 2
ConnectionTimeout == 6
\* the clock stops here
MaxTime == 9
\* environment faults (a failing resp.update) injected per run
MaxFaults == 1
\* discretisation: an instant "just after" a deadline is seen one tick later
TickSlack == 1

\* 30 s between timeout re-validations of the remote->client pump, in ticks
CheckInterval == 2
\* 15 s between keep-alive writes to remote stdin, in ticks
HeartbeatInterval == 1
\* 30 s bound of asyncio.wait_for(websocket.receive_text()), in ticks
ReceiveTimeout == 2
\* len(data) > 100 selects the paste path
PasteThreshold == 100

Tasks == {"read", "write"}

(***************************************************************************)
(* Strings                                                                 *)
(***************************************************************************)
NUL == "NUL"
LF == "LF"
CR == "CR"
JsonTokens == {"J_resize", "J_resize_80x24", "J_resize_bad", "J_resize_closed",
               "J_resize_nocols", "J_other", "J_list"}

\* len() of one symbol
SymLen(c) == IF c = "X101" THEN 101 ELSE IF c \in JsonTokens THEN 40 ELSE 1

RECURSIVE StrLen(_)
StrLen(s) == IF s = <<>> THEN 0 ELSE SymLen(Head(s)) + StrLen(Tail(s))

Contains(s, c) == \E i \in 1..Len(s) : s[i] = c

\* str.splitlines(): CR LF, LF and CR each end a line; no empty last line
RECURSIVE SplitFrom(_, _)
SplitFrom(s, cur) ==
    IF s = <<>> THEN (IF cur = <<>> THEN <<>> ELSE <<cur>>)
    ELSE IF Head(s) = CR /\ Len(s) >= 2 /\ s[2] = LF
         THEN <<cur>> \o SplitFrom(Tail(Tail(s)), <<>>)
    ELSE IF Head(s) \in {LF, CR}
         THEN <<cur>> \o SplitFrom(Tail(s), <<>>)
    ELSE SplitFrom(Tail(s), Append(cur, Head(s)))

splitlines(s) == SplitFrom(s, <<>>)

(***************************************************************************)
(* JSON: json.loads of a message text                                      *)
(***************************************************************************)
NoneV == [t |-> "none", v |-> 0]
IntV(n) == [t |-> "int", v |-> n]
\* a string value that is no number: "abc" (v = 0), "closed" (v = 1)
StrV == [t |-> "str", v |-> 0]
StrClosedV == [t |-> "str", v |-> 1]

JSONDecodeError == [ok |-> FALSE, isdict |-> FALSE, type |-> "", cols |-> NoneV, rows |-> NoneV]
JsonDict(ty, c, r) == [ok |-> TRUE, isdict |-> TRUE, type |-> ty, cols |-> c, rows |-> r]

json_loads(data) ==
    IF Len(data) = 1 /\ data[1] \in JsonTokens
    THEN CASE data[1] = "J_resize" -> JsonDict("resize", IntV(120), IntV(40))
           [] data[1] = "J_resize_80x24" -> JsonDict("resize", IntV(80), IntV(24))
           [] data[1] = "J_resize_bad" -> JsonDict("resize", StrV, IntV(40))
           [] data[1] = "J_resize_closed" -> JsonDict("resize", StrClosedV, IntV(40))
           [] data[1] = "J_resize_nocols" -> JsonDict("resize", NoneV, IntV(40))
           [] data[1] = "J_other" -> JsonDict("ping", NoneV, NoneV)
           [] OTHER -> [ok |-> TRUE, isdict |-> FALSE, type |-> "", cols |-> NoneV, rows |-> NoneV]
    ELSE JSONDecodeError

(***************************************************************************)
(* Writes on the exec stream caused by one client message                  *)
(***************************************************************************)
StdinWrite(s) == [ch |-> "stdin", data |-> s, w |-> 0, h |-> 0]
ResizeWrite(c, r) == [ch |-> "resize", data |-> <<>>, w |-> c, h |-> r]

\* the result of a handler: the writes it issued and the exception it raised
Done(wr) == [writes |-> wr, raised |-> "none"]
Raised(wr, e) == [writes |-> wr, raised |-> e]

HandleResizeMessage_swapped(message, open) ==
    IF message.cols.t # "none" /\ message.rows.t # "none"
    THEN IF open THEN Done(<<ResizeWrite(message.rows.v, message.cols.v)>>) ELSE Done(<<>>)
    ELSE Done(<<>>)

\* int(x) of a string that is no number raises ValueError("invalid literal for
\* int() with base 10: '<x>'"): the text of the exception holds the string, and
\* _is_connection_error looks for "connection" and "closed" in that text
IntError(x) == IF x = StrClosedV THEN "connection" ELSE "other"

\* _handle_resize_message: int(cols) is evaluated before int(rows)
HandleResizeMessage(message, open) ==
    IF message.cols.t # "none" /\ message.rows.t # "none"
    THEN IF message.cols.t = "str" \/ message.rows.t = "str"
         THEN Raised(<<>>, IntError(IF message.cols.t = "str" THEN message.cols
                                    ELSE message.rows))
         ELSE IF open THEN Done(<<ResizeWrite(message.cols.v, message.rows.v)>>)
              ELSE Done(<<>>)
    ELSE Done(<<>>)

RECURSIVE PasteWrites_trailing(_, _)
PasteWrites_trailing(lines, i) ==
    IF i > Len(lines) THEN <<>>
    ELSE <<StdinWrite(lines[i]), StdinWrite(<<LF>>)>> \o PasteWrites_trailing(lines, i + 1)

\* the paste loop of _handle_text_message: line i, then "\n" unless it is the last
RECURSIVE PasteWrites(_, _)
PasteWrites(lines, i) ==
    IF i > Len(lines) THEN <<>>
    ELSE <<StdinWrite(lines[i])>>
         \o (IF i - 1 < Len(lines) - 1 THEN <<StdinWrite(<<LF>>)>> ELSE <<>>)
         \o PasteWrites(lines, i + 1)

\* _handle_text_message
HandleTextMessage(data, open) ==
    IF StrLen(data) > PasteThreshold \/ Contains(data, LF)
    THEN IF open THEN Done(PasteWrites(splitlines(data), 1)) ELSE Done(<<>>)
    ELSE IF open THEN Done(<<StdinWrite(data)>>) ELSE Done(<<>>)

\* _process_websocket_message
ProcessWebsocketMessage(data, open) ==
    LET message == json_loads(data) IN
    IF message.ok /\ message.isdict /\ message.type = "resize"
    THEN HandleResizeMessage(message, open)
    ELSE HandleTextMessage(data, open)

(***************************************************************************)
(* ConnectionStatus and _check_connection_timeout                          *)
(***************************************************************************)
\* ConnectionStatus(...) as handle_connection builds it at time t
NewConnectionStatus(t) ==
    [is_active |-> TRUE, last_activity_time |-> t, connection_start_time |-> t,
     idle_timeout |-> IdleTimeout, connection_timeout |-> ConnectionTimeout]

NoStatus ==
    [is_active |-> FALSE, last_activity_time |-> 0, connection_start_time |-> 0,
     idle_timeout |-> IdleTimeout, connection_timeout |-> ConnectionTimeout]

CheckConnectionTimeout_noidle(c, t) ==
    IF t - c.connection_start_time > c.connection_timeout THEN FALSE ELSE TRUE

\* _check_connection_timeout: TRUE while neither budget is exceeded
CheckConnectionTimeout(c, t) ==
    IF t - c.last_activity_time > c.idle_timeout THEN FALSE
    ELSE IF t - c.connection_start_time > c.connection_timeout THEN FALSE
    ELSE TRUE

\* _is_connection_error, on the two classes of exception text the model
\* raises: "connection" stands for a text that holds "connection" or "closed"
IsConnectionError(e) == e = "connection"

(***************************************************************************)
(* The two endpoints                                                       *)
(***************************************************************************)
\* what kubernetes.stream.stream(...) returns: an open WSClient
OpenStream == [kind |-> "stream", open |-> TRUE, peerGone |-> FALSE, closeCalls |-> 0]
\* what calling an async def without await returns: a coroutine object
CoroutineObject == [kind |-> "coroutine", open |-> FALSE, peerGone |-> FALSE, closeCalls |-> 0]
NoStream == [kind |-> "none", open |-> FALSE, peerGone |-> FALSE, closeCalls |-> 0]

\* starlette WebSocket after accept()
AcceptedSocket ==
    [client_state |-> "CONNECTED", application_state |-> "CONNECTED",
     peerGone |-> FALSE, closeCalls |-> 0, closeErrors |-> 0, diag |-> 0]
NewSocket ==
    [client_state |-> "CONNECTING", application_state |-> "CONNECTING",
     peerGone |-> FALSE, closeCalls |-> 0, closeErrors |-> 0, diag |-> 0]

\* websocket.close(): the close message is sent once; a second call raises
\* RuntimeError inside starlette's send()
WsClose(w) ==
    IF w.application_state = "CONNECTED"
    THEN [w EXCEPT !.application_state = "DISCONNECTED", !.closeCalls = @ + 1]
    ELSE [w EXCEPT !.closeCalls = @ + 1, !.closeErrors = @ + 1]

\* resp.close()
RespClose(r) == [r EXCEPT !.open = FALSE, !.closeCalls = @ + 1]

(***************************************************************************)
(* Tasks                                                                   *)
(***************************************************************************)
NotStarted == [pc |-> "none", cancelReq |-> FALSE, cancelling |-> FALSE, failed |-> FALSE]
Created == [pc |-> "start", cancelReq |-> FALSE, cancelling |-> FALSE, failed |-> FALSE]

InternalPC == {"head", "update", "stdout", "stderr", "check", "outer_except",
               "process", "cleanup"}
AwaitPC == {"send_out", "send_err", "sleep", "errsleep", "send_diag", "recv", "close_ws"}

Running(t) == task[t].pc \in InternalPC
Idle == (\A t \in Tasks : ~Running(t)) /\ sup.pc # "loop"

\* a task suspended at an await that may be resumed normally
Resumable(t, p) == task[t].pc = p /\ Idle /\ ~task[t].cancelReq

Goto(t, p) == task' = [task EXCEPT ![t].pc = p]
Fail(t, p) == task' = [task EXCEPT ![t].pc = p, ![t].failed = TRUE]

\* the except clause of a pump's inner try: break on a connection error,
\* otherwise sleep 0.1 s and go round the loop again
LoopExcept(t, e) == Goto(t, IF IsConnectionError(e) THEN "cleanup" ELSE "errsleep")

(***************************************************************************)
(* _cleanup_pod_stream, run from the finally of either pump                *)
(***************************************************************************)
Finished(t) ==
    task' = [task EXCEPT ![t].pc = "done"]

CleanupPodStream(t) ==
    /\ task[t].pc = "cleanup"
    /\ IF resp.kind = "coroutine"
       THEN \* resp.is_open() raises AttributeError out of the finally
            /\ task' = [task EXCEPT ![t].pc = "done", ![t].failed = TRUE,
                                    ![t].cancelling = FALSE]
            /\ UNCHANGED <<resp, ws>>
       ELSE /\ resp' = IF resp.open THEN RespClose(resp) ELSE resp
            /\ IF ws.client_state # "DISCONNECTED"
               THEN /\ ws' = WsClose(ws)
                    /\ IF ws.application_state = "CONNECTED"
                       THEN Goto(t, "close_ws")
                       ELSE Finished(t)
               ELSE /\ ws' = ws
                    /\ Finished(t)
    /\ UNCHANGED <<now, cs, rl, wl, sup, hc, writes, faults>>
    /\ UNCHANGED svars

\* await websocket.close() completes
CleanupClosed(t) ==
    /\ Resumable(t, "close_ws")
    /\ Finished(t)
    /\ UNCHANGED <<now, cs, resp, ws, rl, wl, sup, hc, writes, faults>>
    /\ UNCHANGED svars

\* task.cancel() reaches the task at the await it is suspended in
DeliverCancel(t) ==
    /\ task[t].cancelReq
    /\ task[t].pc \in AwaitPC
    /\ Idle
    /\ IF task[t].pc = "close_ws"
       THEN task' = [task EXCEPT ![t].pc = "done", ![t].cancelReq = FALSE,
                                 ![t].cancelling = TRUE]
       ELSE task' = [task EXCEPT ![t].pc = "cleanup", ![t].cancelReq = FALSE,
                                 ![t].cancelling = TRUE]
    /\ UNCHANGED <<now, cs, resp, ws, rl, wl, sup, hc, writes, faults>>
    /\ UNCHANGED svars

(***************************************************************************)
(* _read_from_pod: the remote->client pump                                 *)
(***************************************************************************)
\* websocket.send_text(...) is entered: starlette raises RuntimeError at once
\* when the close message was already sent, otherwise the task awaits the send
SendAccepted == ws.application_state = "CONNECTED"

\* how an awaited send can end: a client that has gone makes it fail
SendOutcomes == IF ws.peerGone THEN {"ok", "connection", "other"} ELSE {"ok"}

RP_Start ==
    /\ Resumable("read", "start")
    /\ rl' = [last_heartbeat_time |-> now, last_check_time |-> now,
              data_received |-> FALSE, polled |-> FALSE, hb |-> FALSE,
             hbOut |-> "none"]
    /\ Goto("read", "head")
    /\ UNCHANGED <<now, cs, resp, ws, wl, sup, hc, writes, faults>>
    /\ UNCHANGED svars

\* while resp.is_open() and connection_status.is_active
RP_Head ==
    /\ task["read"].pc = "head"
    /\ IF resp.kind = "coroutine"
       THEN Fail("read", "outer_except")
       ELSE IF resp.open /\ cs.is_active
            THEN Goto("read", "update")
            ELSE Goto("read", "cleanup")
    /\ UNCHANGED <<now, cs, resp, ws, rl, wl, sup, hc, writes, faults>>
    /\ UNCHANGED svars

\* resp.update(timeout=0.05): notices a close frame of the remote side
RP_Update ==
    /\ task["read"].pc = "update"
    /\ \/ /\ resp' = IF resp.peerGone THEN [resp EXCEPT !.open = FALSE] ELSE resp
          /\ rl' = [rl EXCEPT !.data_received = FALSE]
          /\ Goto("read", "stdout")
          /\ UNCHANGED faults
       \/ /\ faults < MaxFaults
          /\ faults' = faults + 1
          /\ \E e \in {"connection", "other"} : LoopExcept("read", e)
          /\ UNCHANGED <<resp, rl>>
    /\ UNCHANGED <<now, cs, ws, wl, sup, hc, writes>>
    /\ UNCHANGED svars

\* one sub-channel of the poll: nothing to read, or a chunk that is sent to a
\* CONNECTED client, or a break
RP_Channel(here, sending, next) ==
    /\ task["read"].pc = here
    /\ \E avail \in BOOLEAN :
         IF ~avail THEN Goto("read", next)
         ELSE IF ws.client_state = "CONNECTED"
              THEN IF SendAccepted THEN Goto("read", sending)
                   ELSE LoopExcept("read", "other")
              ELSE Goto("read", "cleanup")
    /\ UNCHANGED <<now, cs, resp, ws, rl, wl, sup, hc, writes, faults>>
    /\ UNCHANGED svars

RP_Stdout == RP_Channel("stdout", "send_out", "stderr")
RP_Stderr == RP_Channel("stderr", "send_err", "check")

\* await websocket.send_text(data) returns or raises
RP_Sent(sending, next) ==
    /\ Resumable("read", sending)
    /\ \E o \in SendOutcomes :
         IF o = "ok"
         THEN /\ rl' = [rl EXCEPT !.data_received = TRUE]
              /\ Goto("read", next)
         ELSE /\ rl' = rl
              /\ LoopExcept("read", o)
    /\ UNCHANGED <<now, cs, resp, ws, wl, sup, hc, writes, faults>>
    /\ UNCHANGED svars

RP_SentStdout == RP_Sent("send_out", "stderr")
RP_SentStderr == RP_Sent("send_err", "check")

SendHeartbeat_unchecked(r, fails) ==
    IF fails THEN "swallowed" ELSE "sent"

SendHeartbeat_raises(r, fails) ==
    IF ~r.open THEN "skipped" ELSE IF fails THEN "raised" ELSE "sent"

\* _send_heartbeat: an empty write to stdin if the stream is open; an
\* exception of the write is logged and not raised again
SendHeartbeat(r, fails) ==
    IF ~r.open THEN "skipped" ELSE IF fails THEN "swallowed" ELSE "sent"

\* resp.write_stdin("") can raise once the remote side has gone
HeartbeatFailures(r) == IF r.open /\ r.peerGone THEN BOOLEAN ELSE {FALSE}

\* the periodic timeout check, the heartbeat, then the sleep (rl.hbOut notes
\* what the last pass did about the heartbeat, rl.hb that one was written)
RP_Check ==
    /\ task["read"].pc = "check"
    /\ LET due == now - rl.last_check_time > CheckInterval
           expired == due /\ ~CheckConnectionTimeout(cs, now)
           beat == now - rl.last_heartbeat_time > HeartbeatInterval
       IN IF expired
          THEN /\ cs' = [cs EXCEPT !.is_active = FALSE]
               /\ rl' = [rl EXCEPT !.last_check_time = now]
               /\ Goto("read", "cleanup")
          ELSE \E fails \in (IF beat THEN HeartbeatFailures(resp) ELSE {FALSE}) :
               LET o == IF beat THEN SendHeartbeat(resp, fails) ELSE "none" IN
               /\ cs' = cs
               /\ IF o = "raised"
                  THEN /\ rl' = [rl EXCEPT
                                   !.last_check_time = IF due THEN now ELSE @,
                                   !.hbOut = o]
                       /\ LoopExcept("read", "connection")
                  ELSE /\ rl' = [rl EXCEPT
                                   !.last_check_time = IF due THEN now ELSE @,
                                   !.last_heartbeat_time = IF beat THEN now ELSE @,
                                   !.hb = @ \/ o = "sent",
                                   !.hbOut = o,
                                   !.data_received = FALSE,
                                   !.polled = TRUE]
                       /\ Goto("read", "sleep")
    /\ UNCHANGED <<now, resp, ws, wl, sup, hc, writes, faults>>
    /\ UNCHANGED svars

\* asyncio.sleep(sleep_time) / asyncio.sleep(0.1) is over
RP_Slept ==
    /\ \/ Resumable("read", "sleep")
       \/ Resumable("read", "errsleep")
    /\ Goto("read", "head")
    /\ UNCHANGED <<now, cs, resp, ws, rl, wl, sup, hc, writes, faults>>
    /\ UNCHANGED svars

\* except Exception as e (outer): one diagnostic message to a CONNECTED client
RP_OuterExcept ==
    /\ task["read"].pc = "outer_except"
    /\ IF ws.client_state = "CONNECTED" /\ SendAccepted
       THEN /\ ws' = [ws EXCEPT !.diag = @ + 1]
            /\ Goto("read", "send_diag")
       ELSE /\ ws' = ws
            /\ Goto("read", "cleanup")
    /\ UNCHANGED <<now, cs, resp, rl, wl, sup, hc, writes, faults>>
    /\ UNCHANGED svars

RP_SentDiag ==
    /\ Resumable("read", "send_diag")
    /\ Goto("read", "cleanup")
    /\ UNCHANGED <<now, cs, resp, ws, rl, wl, sup, hc, writes, faults>>
    /\ UNCHANGED svars

(***************************************************************************)
(* _write_to_pod: the client->remote pump                                  *)
(***************************************************************************)
Heartbeat == <<NUL>>

IsHeartbeat_never(data) == FALSE

\* if data == "\x00": continue
IsHeartbeat(data) == data = Heartbeat

\* the client messages of a session
BridgeMessages == {Heartbeat, <<"a">>, <<"a", LF, "b">>, <<"J_resize">>, <<"J_resize_bad">>}

\* the event loop starts the tasks in the order of their creation
WP_Start ==
    /\ Resumable("write", "start")
    /\ task["read"].pc # "start"
    /\ Goto("write", "head")
    /\ UNCHANGED <<now, cs, resp, ws, rl, wl, sup, hc, writes, faults>>
    /\ UNCHANGED svars

\* while connection_status.is_active: data = await wait_for(receive_text(), 30)
\* starlette raises RuntimeError at once on a socket that is not CONNECTED
WP_Head ==
    /\ task["write"].pc = "head"
    /\ IF cs.is_active
       THEN IF ws.application_state = "CONNECTED" /\ ws.client_state = "CONNECTED"
            THEN /\ wl' = [wl EXCEPT !.waitStart = now]
                 /\ Goto("write", "recv")
            ELSE /\ wl' = wl
                 /\ LoopExcept("write", "other")
       ELSE /\ wl' = wl
            /\ Goto("write", "cleanup")
    /\ UNCHANGED <<now, cs, resp, ws, rl, sup, hc, writes, faults>>
    /\ UNCHANGED svars

\* a client message arrives: the heartbeat is skipped, any other message is
\* recorded as activity
\* (wl.lastInput notes when the client last sent something that is not the
\* heartbeat byte, whatever the pump makes of it)
WP_Recv(m) ==
    /\ Resumable("write", "recv")
    /\ ws.application_state = "CONNECTED"
    /\ ~ws.peerGone
    /\ now - wl.waitStart < ReceiveTimeout
    /\ wl' = [wl EXCEPT !.data = m,
                        !.lastInput = IF m = Heartbeat THEN @ ELSE now]
    /\ writes' = <<>>
    /\ IF IsHeartbeat(m)
       THEN /\ cs' = cs
            /\ Goto("write", "head")
       ELSE /\ cs' = [cs EXCEPT !.last_activity_time = now]
            /\ Goto("write", "process")
    /\ UNCHANGED <<now, resp, ws, rl, sup, hc, faults>>
    /\ UNCHANGED svars

\* if not resp.is_open(): break; _process_websocket_message; timeout check
WP_Process ==
    /\ task["write"].pc = "process"
    /\ IF resp.kind = "coroutine"
       THEN /\ writes' = writes
            /\ LoopExcept("write", "other")
       ELSE IF ~resp.open
       THEN /\ writes' = writes
            /\ Goto("write", "cleanup")
       ELSE LET r == ProcessWebsocketMessage(wl.data, resp.open) IN
            \/ /\ writes' = r.writes
               /\ IF r.raised # "none" THEN LoopExcept("write", r.raised)
                  ELSE IF ~CheckConnectionTimeout(cs, now) THEN Goto("write", "cleanup")
                  ELSE Goto("write", "head")
            \/ /\ resp.peerGone
               /\ \E k \in 0..(Len(r.writes) - 1) :
                    writes' = SubSeq(r.writes, 1, k)
               /\ LoopExcept("write", "connection")
    /\ UNCHANGED <<now, cs, resp, ws, rl, wl, sup, hc, faults>>
    /\ UNCHANGED svars

\* the client has gone, or the close handshake ended: WebSocketDisconnect
WP_RecvDisconnect ==
    /\ Resumable("write", "recv")
    /\ ws.peerGone \/ ws.application_state = "DISCONNECTED"
    /\ ws' = [ws EXCEPT !.client_state = "DISCONNECTED"]
    /\ Goto("write", "cleanup")
    /\ UNCHANGED <<now, cs, resp, rl, wl, sup, hc, writes, faults>>
    /\ UNCHANGED svars

TimeoutContinues_never(c, t, r, w) == FALSE

\* the TimeoutError handler reaches its 'continue': the budgets hold, the
\* stream is open and the client is connected
TimeoutContinues(c, t, r, w) ==
    /\ CheckConnectionTimeout(c, t)
    /\ ~(~r.open \/ w.client_state # "CONNECTED")

\* except asyncio.TimeoutError (resp.is_open() of a coroutine object raises
\* AttributeError out of the handler)
WP_RecvTimeout ==
    /\ Resumable("write", "recv")
    /\ now - wl.waitStart >= ReceiveTimeout
    /\ IF resp.kind = "coroutine" /\ CheckConnectionTimeout(cs, now)
       THEN Fail("write", "cleanup")
       ELSE IF TimeoutContinues(cs, now, resp, ws) THEN Goto("write", "head")
       ELSE Goto("write", "cleanup")
    /\ UNCHANGED <<now, cs, resp, ws, rl, wl, sup, hc, writes, faults>>
    /\ UNCHANGED svars

WP_Slept ==
    /\ Resumable("write", "errsleep")
    /\ Goto("write", "head")
    /\ UNCHANGED <<now, cs, resp, ws, rl, wl, sup, hc, writes, faults>>
    /\ UNCHANGED svars

(***************************************************************************)
(* _handle_communication: the supervisor                                   *)
(***************************************************************************)
IsDone(t) == task[t].pc = "done"

AwaitReturns_nowait(t) == TRUE

\* await task: the supervisor resumes when the task has finished
AwaitReturns(t) == IsDone(t)

WaitTimedOut_never == FALSE

\* asyncio.wait(..., FIRST_COMPLETED, timeout=connection_timeout) returns
WaitTimedOut == now - sup.waitStart >= cs.connection_timeout
WaitReturns == (\E t \in Tasks : IsDone(t)) \/ WaitTimedOut

\* both pumps are created and the supervisor starts waiting
SupStart ==
    /\ sup.pc = "init"
    /\ task' = [t \in Tasks |-> Created]
    /\ sup' = [sup EXCEPT !.pc = "wait", !.waitStart = now]
    /\ UNCHANGED <<now, cs, resp, ws, rl, wl, hc, writes, faults>>
    /\ UNCHANGED svars

\* done, pending = await asyncio.wait(...); sup.timedOut notes that the wait
\* returned with no pump done
SupWake ==
    /\ sup.pc = "wait"
    /\ Idle
    /\ \A t \in Tasks : task[t].pc # "start"
    /\ WaitReturns
    /\ sup' = [sup EXCEPT !.pc = "loop", !.pending = {t \in Tasks : ~IsDone(t)},
                          !.timedOut = ~\E t \in Tasks : IsDone(t)]
    /\ UNCHANGED <<now, cs, resp, ws, task, rl, wl, hc, writes, faults>>
    /\ UNCHANGED svars

\* for task in pending: task.cancel(); await task
SupCancel ==
    /\ sup.pc = "loop"
    /\ IF sup.pending = {}
       THEN /\ sup' = [sup EXCEPT !.pc = "returned"]
            /\ task' = task
       ELSE \E t \in sup.pending :
              /\ task' = [task EXCEPT ![t].cancelReq = ~IsDone(t)]
              /\ sup' = [sup EXCEPT !.pc = "await", !.awaiting = t,
                                    !.pending = @ \ {t}]
    /\ UNCHANGED <<now, cs, resp, ws, rl, wl, hc, writes, faults>>
    /\ UNCHANGED svars

\* await task returns (or raises, which the supervisor swallows)
SupAwaited ==
    /\ sup.pc = "await"
    /\ Idle
    /\ AwaitReturns(sup.awaiting)
    /\ sup' = [sup EXCEPT !.pc = "loop"]
    /\ UNCHANGED <<now, cs, resp, ws, task, rl, wl, hc, writes, faults>>
    /\ UNCHANGED svars

(***************************************************************************)
(* Environment and time                                                    *)
(***************************************************************************)
\* the remote shell exits: the stream gets a close frame
RemoteExit ==
    /\ Idle
    /\ resp.kind = "stream" /\ resp.open /\ ~resp.peerGone
    /\ resp' = [resp EXCEPT !.peerGone = TRUE]
    /\ UNCHANGED <<now, cs, ws, task, rl, wl, sup, hc, writes, faults>>
    /\ UNCHANGED svars

\* the browser closes the connection
ClientDisconnect ==
    /\ Idle
    /\ ws.client_state = "CONNECTED" /\ ws.application_state = "CONNECTED"
    /\ ~ws.peerGone
    /\ ws' = [ws EXCEPT !.peerGone = TRUE]
    /\ UNCHANGED <<now, cs, resp, task, rl, wl, sup, hc, writes, faults>>
    /\ UNCHANGED svars

\* a step that happens within the current tick: the short sleeps, the sends,
\* a cancellation, an expired timer
Urgent ==
    \/ \E t \in Tasks : task[t].pc \in {"start", "send_out", "send_err", "send_diag",
                                        "close_ws", "errsleep"}
    \/ \E t \in Tasks : task[t].cancelReq /\ ~IsDone(t)
    \/ task["read"].pc = "sleep" /\ ~rl.polled
    \/ /\ task["write"].pc = "recv"
       /\ \/ now - wl.waitStart >= ReceiveTimeout
          \/ ws.peerGone
          \/ ws.application_state = "DISCONNECTED"
    \/ sup.pc = "init"
    \/ sup.pc = "wait" /\ WaitReturns
    \/ sup.pc = "await" /\ AwaitReturns(sup.awaiting)
    \/ hc.pc \in {"accept", "try", "nok8s_close", "except", "finally"}
    \/ hc.pc = "bridge" /\ sup.pc = "returned"

\* the session is over: the handler has returned or raised
Over ==
    \/ hc.pc \in {"returned", "raised"}
    \/ hc.pc = "harness" /\ sup.pc = "returned"

Tick ==
    /\ Idle
    /\ ~Urgent
    /\ ~Over
    /\ now < MaxTime
    /\ now' = now + 1
    /\ rl' = [rl EXCEPT !.polled = FALSE]
    /\ UNCHANGED <<cs, resp, ws, task, wl, sup, hc, writes, faults>>
    /\ UNCHANGED svars

(***************************************************************************)
(* The cluster adapter: app/services/k8s_service.py.  In the adapter's     *)
(* specification one tick of now is 100 s.  check_pod_exists is            *)
(* synchronous and create_exec_stream awaits only the stream request, so   *)
(* one call is a sequential program; ks holds the service's fields         *)
(* (core_v1, cache), the cluster (pods), the frame of the call in progress *)
(* and what the call did (lookups, reinits, streamReqs).                   *)
(***************************************************************************)
\* self._cache_ttl = 300 s, in ticks of 100 s
CacheTTL == 3
\* the adapter's clock stops here
KMaxTime == 4
\* failures (of lookups, stream requests, reinitializations) per run
MaxK8sFaults == 2

Pods == {"ns:p1", "ns:p2"}

\* a value of self._pod_cache.get(cache_key)
NoEntry == [present |-> FALSE, result |-> FALSE, time |-> 0]
Entry(r, t) == [present |-> TRUE, result |-> r, time |-> t]

CacheFresh_inclusive(e, t) == e.present /\ t - e.time <= CacheTTL

\* cache_key in self._pod_cache and current_time - cache_time < self._cache_ttl
CacheFresh(e, t) == e.present /\ t - e.time < CacheTTL

\* what read_namespaced_pod can do: the pod, ApiException 404, ApiException
\* of another status, an error whose text holds "SSLError" and
\* "FileNotFoundError", any other error
LookupFailures == {"api", "ssl", "other"}
LookupOutcomes(exists) == {IF exists THEN "found" ELSE "404"} \cup LookupFailures

CacheAfterLookup_negative(cache, key, o, t) ==
    IF o = "found" THEN [cache EXCEPT ![key] = Entry(TRUE, t)]
    ELSE [cache EXCEPT ![key] = Entry(FALSE, t)]

\* self._pod_cache[cache_key] = (True|False, current_time), on an answer only
CacheAfterLookup(cache, key, o, t) ==
    IF o = "found" THEN [cache EXCEPT ![key] = Entry(TRUE, t)]
    ELSE IF o = "404" THEN [cache EXCEPT ![key] = Entry(FALSE, t)]
    ELSE cache

\* "SSLError" in error_str and "FileNotFoundError" in error_str and
\* retry_count < max_retries  (max_retries = 1)
ShouldReinitialize(ssl, retry_count) == ssl /\ retry_count < 1

\* no call in progress
KsIdle(core, cache, pods, used) ==
    [core_v1 |-> core, cache |-> cache, pods |-> pods, used |-> used,
     call |-> "none", key |-> "ns:p1", pc |-> "idle",
     cpe_retry |-> 0, ces_retry |-> 0, current_time |-> 0,
     core0 |-> core, entry0 |-> NoEntry, cache0 |-> cache, hit |-> FALSE,
     last |-> "none",
     ret |-> "none", exc |-> "none", ssl |-> FALSE,
     lookups |-> 0, reinits |-> 0, streamReqs |-> 0, checks |-> 0,
     result |-> "none", http |-> 0]

\* check_pod_exists returns v / raises K8sConnectionError whose text holds
\* str(e): to the HTTP route, or into create_exec_stream's try block
CpeReturn(k, v) ==
    IF k.call = "check"
    THEN [k EXCEPT !.pc = "done", !.ret = v, !.exc = "none", !.ssl = FALSE, !.result = v]
    ELSE [k EXCEPT !.pc = "ces_checked", !.ret = v, !.exc = "none", !.ssl = FALSE]

CpeRaise(k, ssl) ==
    IF k.call = "check"
    THEN [k EXCEPT !.pc = "done", !.ret = "none", !.exc = "K8sConnectionError",
                   !.ssl = ssl, !.result = "K8sConnectionError"]
    ELSE [k EXCEPT !.pc = "ces_checked", !.ret = "none", !.exc = "K8sConnectionError",
                   !.ssl = ssl]

\* create_exec_stream's except Exception branch
CesExcept(k, ssl) ==
    IF ShouldReinitialize(ssl, k.ces_retry)
    THEN [k EXCEPT !.pc = "ces_reinit", !.ces_retry = @ + 1]
    ELSE [k EXCEPT !.pc = "done", !.result = "PodConnectionError"]

AbsentOutcome_generic(k) == CesExcept(k, FALSE)

\* raise PodNotFoundError ... except PodNotFoundError: raise
AbsentOutcome(k) == [k EXCEPT !.pc = "done", !.result = "PodNotFoundError"]

\* the HTTP route GET /connect calls check_pod_exists
K_CallCheck(p) ==
    /\ ks.pc = "idle"
    /\ ks' = [KsIdle(ks.core_v1, ks.cache, ks.pods, ks.used) EXCEPT
                !.call = "check", !.key = p, !.pc = "cpe_head"]
    /\ UNCHANGED <<bvars, up, term, fifo, sh>>

\* create_exec_stream is called: if not self.core_v1: raise K8sConnectionError
K_CallExec(p) ==
    /\ ks.pc = "idle"
    /\ LET k == [KsIdle(ks.core_v1, ks.cache, ks.pods, ks.used) EXCEPT
                    !.call = "exec", !.key = p]
       IN ks' = IF ks.core_v1 THEN [k EXCEPT !.pc = "ces_head"]
                ELSE [k EXCEPT !.pc = "done", !.result = "K8sConnectionError"]
    /\ UNCHANGED <<bvars, up, term, fifo, sh>>

\* top of create_exec_stream's loop: call check_pod_exists
CES_Head ==
    /\ ks.pc = "ces_head"
    /\ ks' = [ks EXCEPT !.pc = "cpe_head"]
    /\ UNCHANGED <<bvars, up, term, fifo, sh>>

\* check_pod_exists up to its loop: the client check and the cache
CPE_Head ==
    /\ ks.pc = "cpe_head"
    /\ LET e == ks.cache[ks.key]
           k == [ks EXCEPT !.current_time = now, !.core0 = ks.core_v1,
                           !.entry0 = e, !.cache0 = ks.cache,
                           !.cpe_retry = 0, !.lookups = 0, !.hit = FALSE,
                           !.last = "none", !.checks = @ + 1]
       IN ks' = IF ~ks.core_v1 THEN CpeRaise(k, FALSE)
                ELSE IF CacheFresh(e, now)
                     THEN CpeReturn([k EXCEPT !.hit = TRUE],
                                    IF e.result THEN "True" ELSE "False")
                ELSE [k EXCEPT !.pc = "cpe_lookup"]
    /\ UNCHANGED <<bvars, up, term, fifo, sh>>

\* self.core_v1.read_namespaced_pod(...) and the handlers of its exceptions
CPE_Lookup ==
    /\ ks.pc = "cpe_lookup"
    /\ \E o \in LookupOutcomes(ks.pods[ks.key]) :
         /\ o \in LookupFailures => ks.used < MaxK8sFaults
         /\ LET k == [ks EXCEPT !.lookups = @ + 1, !.last = o,
                                !.used = IF o \in LookupFailures THEN @ + 1 ELSE @,
                                !.cache = CacheAfterLookup(@, ks.key, o, ks.current_time)]
            IN ks' = CASE o = "found" -> CpeReturn(k, "True")
                       [] o = "404" -> CpeReturn(k, "False")
                       [] o = "api" -> CpeRaise(k, FALSE)
                       [] o = "ssl" ->
                            IF ShouldReinitialize(TRUE, k.cpe_retry)
                            THEN [k EXCEPT !.pc = "cpe_reinit", !.cpe_retry = @ + 1]
                            ELSE CpeRaise(k, TRUE)
                       [] OTHER -> CpeRaise(k, FALSE)
    /\ UNCHANGED <<bvars, up, term, fifo, sh>>

\* reinitialize(): core_v1 = None, then initialize() succeeds or raises
Reinitialize(k, ok) ==
    [k EXCEPT !.core_v1 = ok, !.reinits = @ + 1, !.used = IF ok THEN @ ELSE @ + 1]

\* self.reinitialize() inside check_pod_exists; continue, or K8sConnectionError
CPE_Reinit ==
    /\ ks.pc = "cpe_reinit"
    /\ \E ok \in BOOLEAN :
         /\ ~ok => ks.used < MaxK8sFaults
         /\ ks' = IF ok THEN [Reinitialize(ks, TRUE) EXCEPT !.pc = "cpe_lookup"]
                  ELSE CpeRaise(Reinitialize(ks, FALSE), FALSE)
    /\ UNCHANGED <<bvars, up, term, fifo, sh>>

\* back in create_exec_stream with the answer or the exception of the check
CES_Checked ==
    /\ ks.pc = "ces_checked"
    /\ ks' = IF ks.exc # "none" THEN CesExcept(ks, ks.ssl)
             ELSE IF ks.ret = "False" THEN AbsentOutcome(ks)
             ELSE [ks EXCEPT !.pc = "ces_stream"]
    /\ UNCHANGED <<bvars, up, term, fifo, sh>>

\* await run_in_executor(kubernetes.stream.stream(...)): the stream or an error
CES_Stream ==
    /\ ks.pc = "ces_stream"
    /\ \E o \in {"ok"} \cup LookupFailures :
         /\ o # "ok" => ks.used < MaxK8sFaults
         /\ LET k == [ks EXCEPT !.streamReqs = @ + 1,
                                !.used = IF o = "ok" THEN @ ELSE @ + 1]
            IN ks' = IF o = "ok" /\ k.core_v1
                     THEN [k EXCEPT !.pc = "done", !.result = "stream"]
                     ELSE CesExcept(k, o = "ssl")
    /\ UNCHANGED <<bvars, up, term, fifo, sh>>

\* self.reinitialize() inside create_exec_stream
CES_Reinit ==
    /\ ks.pc = "ces_reinit"
    /\ \E ok \in BOOLEAN :
         /\ ~ok => ks.used < MaxK8sFaults
         /\ ks' = IF ok THEN [Reinitialize(ks, TRUE) EXCEPT !.pc = "ces_head"]
                  ELSE [Reinitialize(ks, FALSE) EXCEPT
                           !.pc = "done", !.result = "K8sConnectionError"]
    /\ UNCHANGED <<bvars, up, term, fifo, sh>>

\* the except clauses of connect_to_pod, in their order; HTTPException is a
\* subclass of Exception and of neither application exception
RouteExcept(exc) ==
    CASE exc = "PodNotFoundError" -> 404
      [] exc = "K8sConnectionError" -> 503
      [] OTHER -> 500

\* the status GET /connect answers with: the try block returns the page, or
\* raises HTTPException(404) inside the try, or check_pod_exists raised
ConnectStatus(result) ==
    CASE result = "True" -> 200
      [] result = "False" -> RouteExcept("HTTPException")
      [] OTHER -> RouteExcept(result)

\* connect_to_pod after check_pod_exists came back
CP_Respond ==
    /\ ks.pc = "done" /\ ks.call = "check" /\ ks.http = 0
    /\ ks' = [ks EXCEPT !.http = ConnectStatus(ks.result)]
    /\ UNCHANGED <<bvars, up, term, fifo, sh>>

\* the caller has the result
K_Return ==
    /\ ks.pc = "done"
    /\ ks.call = "check" => ks.http # 0
    /\ ks' = KsIdle(ks.core_v1, ks.cache, ks.pods, ks.used)
    /\ UNCHANGED <<bvars, up, term, fifo, sh>>

\* the cluster: a pod is deleted or created
PodChange(p) ==
    /\ ks' = [ks EXCEPT !.pods[p] = ~@]
    /\ UNCHANGED <<bvars, up, term, fifo, sh>>

\* the adapter's clock
KTick ==
    /\ now < KMaxTime
    /\ now' = now + 1
    /\ UNCHANGED <<cs, resp, ws, task, rl, wl, sup, hc, writes, faults, ks, up, term, fifo,
                   sh>>

(***************************************************************************)
(* The cluster client of the process.  sh holds what all sessions and      *)
(* requests share: the service's api_client and core_v1, the default       *)
(* Configuration of the kubernetes library (config_writer: the component   *)
(* that installed it last), the thread of the event loop and the calls of  *)
(* create_exec_stream in progress.                                         *)
(***************************************************************************)
Sessions == {"s1", "s2"}

NoCall == [pc |-> "idle", retry |-> 0, exec |-> "none", stream |-> "none"]

\* after initialize() at application start-up
NoShared ==
    [core_v1 |-> TRUE, api_client |-> TRUE,
     config_writer |-> "adapter",
     loop |-> "free", call |-> [s \in Sessions |-> NoCall], flt |-> 0]

\* kubernetes.config.load_kube_config(config_file=...) without a
\* client_configuration loads the file into a new Configuration and installs
\* it as the default of the process
LoadKubeConfig(c, who) == [c EXCEPT !.config_writer = who]

\* failing stream() calls and failing initialize() calls per run
MaxSharedFaults == 2

ReinitPCs == {"reinit_clear", "reinit_init"}

ReinitYields_true == TRUE

\* does reinitialize() give up the thread of the event loop before it is
\* through?  It is a plain def without await, called from coroutines.
ReinitYields == FALSE

\* a coroutine can take the thread of the event loop
LoopFree == sh.loop = "free"

\* create_exec_stream up to its await: the client check, check_pod_exists
\* (taken to answer True here), and the lambda handed to the executor
SH_Call(s) ==
    /\ LoopFree
    /\ sh.call[s].pc = "idle"
    /\ sh' = IF sh.core_v1
             THEN [sh EXCEPT !.call[s] = [NoCall EXCEPT !.pc = "await", !.exec = "queued"]]
             ELSE [sh EXCEPT !.call[s] = [NoCall EXCEPT !.pc = "done",
                                                        !.exec = "K8sConnectionError"]]
    /\ UNCHANGED <<bvars, ks, up, term, fifo>>

\* the executor thread runs the lambda: it reads self.core_v1 at that moment
\* (None has no connect_get_namespaced_pod_exec: AttributeError), then
\* kubernetes.stream.stream() opens the stream or raises
SH_Executor(s) ==
    /\ sh.call[s].exec = "queued"
    /\ IF ~sh.core_v1
       THEN sh' = [sh EXCEPT !.call[s].exec = "AttributeError"]
       ELSE \E o \in {"stream", "ssl", "other"} :
              /\ o # "stream" => sh.flt < MaxSharedFaults
              /\ sh' = [sh EXCEPT !.call[s].exec = o,
                                  !.flt = IF o = "stream" THEN @ ELSE @ + 1]
    /\ UNCHANGED <<bvars, ks, up, term, fifo>>

\* the await returns the stream, or raises into except Exception: one
\* reinitialization for the certificate error, PodConnectionError otherwise
SH_Resume(s) ==
    /\ LoopFree
    /\ sh.call[s].pc = "await"
    /\ sh.call[s].exec \notin {"none", "queued"}
    /\ sh' = IF sh.call[s].exec = "stream"
             THEN [sh EXCEPT !.call[s].pc = "done", !.call[s].stream = "open"]
             ELSE IF ShouldReinitialize(sh.call[s].exec = "ssl", sh.call[s].retry)
             THEN [sh EXCEPT !.call[s].pc = "reinit_clear", !.call[s].retry = @ + 1,
                             !.loop = IF ReinitYields THEN "free" ELSE s]
             ELSE [sh EXCEPT !.call[s].pc = "done", !.call[s].exec = "PodConnectionError"]
    /\ UNCHANGED <<bvars, ks, up, term, fifo>>

\* reinitialize(): self.api_client.close(); self.api_client = None;
\* self.core_v1 = None
SH_ReinitClear(s) ==
    /\ sh.loop \in {"free", s}
    /\ sh.call[s].pc = "reinit_clear"
    /\ sh' = [sh EXCEPT !.api_client = FALSE, !.core_v1 = FALSE,
                        !.call[s].pc = "reinit_init",
                        !.loop = IF ReinitYields THEN "free" ELSE s]
    /\ UNCHANGED <<bvars, ks, up, term, fifo>>

\* reinitialize(): self.initialize() sets both again and the loop of
\* create_exec_stream goes round (the lambda is handed over again), or it
\* raises and the call fails with K8sConnectionError
SH_ReinitInit(s) ==
    /\ sh.loop \in {"free", s}
    /\ sh.call[s].pc = "reinit_init"
    /\ \E ok \in BOOLEAN :
         /\ ~ok => sh.flt < MaxSharedFaults
         /\ sh' = IF ok
                  THEN [LoadKubeConfig(sh, "adapter") EXCEPT
                          !.api_client = TRUE, !.core_v1 = TRUE, !.loop = "free",
                          !.call[s].pc = "await", !.call[s].exec = "queued"]
                  ELSE [sh EXCEPT !.loop = "free", !.flt = @ + 1,
                                  !.call[s].pc = "done",
                                  !.call[s].exec = "K8sConnectionError"]
    /\ UNCHANGED <<bvars, ks, up, term, fifo>>

\* the session is over: its stream, if it got one, is closed by its cleanup
SH_Finish(s) ==
    /\ LoopFree
    /\ sh.call[s].pc = "done"
    /\ sh' = [sh EXCEPT !.call[s] = NoCall]
    /\ UNCHANGED <<bvars, ks, up, term, fifo>>

(***************************************************************************)
(* The upload: app/services/upload_service.py.  up holds the locals of one *)
(* upload_file call (tmp_file_path, api_client, the two exec streams), the *)
(* scratch file on disk, the archive and the response.                     *)
(***************************************************************************)
\* the longest filename, in characters
MaxNameLen == 3
\* the archive is written in at most this many 4 KB chunks
MaxChunks == 2

SLASH == "/"
BACKSLASH == "BS"
NameAlphabet == {"a", ".", SLASH, BACKSLASH}

RECURSIVE NamesUpTo(_)
NamesUpTo(n) ==
    IF n = 0 THEN {<<>>}
    ELSE LET shorter == NamesUpTo(n - 1)
         IN shorter \cup {Append(s, c) : s \in {x \in shorter : Len(x) = n - 1},
                                          c \in NameAlphabet}

\* file.filename of the request (None and "" are both the empty sequence)
Filenames == NamesUpTo(MaxNameLen)

\* os.path.basename: what follows the last "/"
RECURSIVE basename(_)
basename(s) ==
    IF s = <<>> THEN <<>>
    ELSE IF Contains(s, SLASH)
         THEN basename(Tail(s))
         ELSE s

ValidFilename_nonempty(fn) == fn # <<>> /\ basename(fn) # <<>>

\* validate_file: not empty, no "/" and no "\", and a non-empty basename
ValidFilename(fn) ==
    /\ ~(fn = <<>> \/ Contains(fn, SLASH) \/ Contains(fn, BACKSLASH))
    /\ basename(fn) # <<>>

\* the exit codes the remote command can report on the error channel
ExitCodes == {0, 1, 2}

\* an exec stream of the upload: opened by stream(), connected until the
\* remote command ends, closed by close()
NoExec == [opened |-> FALSE, connected |-> FALSE, closed |-> FALSE]
OpenedExec == [opened |-> TRUE, connected |-> TRUE, closed |-> FALSE]

\* FileUploadResponse
NoResponse == [kind |-> "none", status_code |-> 0, error |-> "none", exit |-> -1]
SuccessResponse == [kind |-> "success", status_code |-> 200, error |-> "none", exit |-> -1]
ErrorResponse(status, err, rc) ==
    [kind |-> "error", status_code |-> status, error |-> err, exit |-> rc]

UploadOutcome_always(rc) == SuccessResponse

\* if resp_cp.returncode != 0: error carrying the code; else the success message
UploadOutcome(rc) ==
    IF rc # 0 THEN ErrorResponse(500, "TarFailed", rc) ELSE SuccessResponse

NoUpload ==
    [pc |-> "idle", filename |-> <<>>, safe_filename |-> <<>>,
     tmp_file_path |-> FALSE, scratch |-> "none", api_client |-> "none",
     mkdir |-> NoExec, cp |-> NoExec, archive |-> <<>>,
     chunks |-> 0, written |-> 0, rc |-> -1, rcAfterClose |-> FALSE,
     mkdir_rc |-> -1, eof_only |-> FALSE, stdin_closed |-> FALSE,
     response |-> NoResponse]

\* return FileUploadResponse(...) from inside the try: the finally block runs
UpRespond(u, r) == [u EXCEPT !.pc = "finally", !.response = r]

\* except Exception inside the inner try (lines 229-232) / ApiException (225)
UpInnerExcept(u, err) == UpRespond(u, ErrorResponse(500, err, -1))

\* POST .../upload: upload_file(namespace, podname, file)
U_Call ==
    /\ up.pc = "idle"
    /\ \E fn \in Filenames, n \in 1..MaxChunks :
         up' = [NoUpload EXCEPT !.pc = "validate", !.filename = fn, !.chunks = n]
    /\ UNCHANGED <<bvars, ks, term, fifo, sh>>

\* safe_filename = await self.validate_file(file); FileValidationError -> 400
U_Validate ==
    /\ up.pc = "validate"
    /\ up' = IF ValidFilename(up.filename)
             THEN [up EXCEPT !.pc = "config", !.safe_filename = basename(up.filename)]
             ELSE UpRespond(up, ErrorResponse(400, "FileValidationError", -1))
    /\ UNCHANGED <<bvars, ks, term, fifo, sh>>

\* the kube config is there and loads, or the call returns a 500
U_Config ==
    /\ up.pc = "config"
    /\ \E ok \in BOOLEAN :
         /\ up' = IF ok THEN [up EXCEPT !.pc = "save_create", !.api_client = "open"]
                  ELSE UpRespond(up, ErrorResponse(500, "ConfigError", -1))
         /\ sh' = IF ok THEN LoadKubeConfig(sh, "upload") ELSE sh
    /\ UNCHANGED <<bvars, ks, term, fifo>>

\* save_temp_file: NamedTemporaryFile(delete=False) creates the scratch file
U_SaveCreate ==
    /\ up.pc = "save_create"
    /\ \E ok \in BOOLEAN :
         up' = IF ok THEN [up EXCEPT !.pc = "save_copy", !.scratch = "created"]
               ELSE UpRespond(up, ErrorResponse(400, "FileTransferError", -1))
    /\ UNCHANGED <<bvars, ks, term, fifo, sh>>

\* save_temp_file: copyfileobj fills it and the path is returned, or the copy
\* fails part-way and FileTransferError is raised with tmp_file_path unset
U_SaveCopy ==
    /\ up.pc = "save_copy"
    /\ \E ok \in BOOLEAN :
         up' = IF ok THEN [up EXCEPT !.pc = "mkdir_open", !.scratch = "written",
                                     !.tmp_file_path = TRUE]
               ELSE UpRespond([up EXCEPT !.scratch = "partial"],
                              ErrorResponse(400, "FileTransferError", -1))
    /\ UNCHANGED <<bvars, ks, term, fifo, sh>>

\* resp_mkdir = kubernetes.stream.stream(... mkdir -p ...)
U_MkdirOpen ==
    /\ up.pc = "mkdir_open"
    /\ \E ok \in BOOLEAN :
         up' = IF ok THEN [up EXCEPT !.pc = "mkdir_drain", !.mkdir = OpenedExec]
               ELSE UpInnerExcept(up, "ApiException")
    /\ UNCHANGED <<bvars, ks, term, fifo, sh>>

\* while resp_mkdir.is_open(): update, peek, read -- until the command ends
\* or a call on the stream raises
U_MkdirDrain ==
    /\ up.pc = "mkdir_drain"
    /\ \E ok \in BOOLEAN :
         up' = IF ok THEN [up EXCEPT !.pc = "mkdir_close", !.mkdir.connected = FALSE]
               ELSE UpInnerExcept(up, "Exception")
    /\ UNCHANGED <<bvars, ks, term, fifo, sh>>

MkdirOutcome_abort(u, rc) ==
    IF rc # 0 THEN UpRespond([u EXCEPT !.mkdir_rc = rc], ErrorResponse(500, "MkdirFailed", rc))
    ELSE [u EXCEPT !.pc = "tar", !.mkdir_rc = rc]

\* if resp_mkdir.returncode != 0: a warning is logged; then the archive
MkdirOutcome(u, rc) == [u EXCEPT !.pc = "tar", !.mkdir_rc = rc]

\* resp_mkdir.close(); a non-zero return code is only logged
U_MkdirClose ==
    /\ up.pc = "mkdir_close"
    /\ \E rc \in ExitCodes \cup {-1} :
         LET u == [up EXCEPT !.mkdir.closed = TRUE, !.mkdir.connected = FALSE]
         IN up' = IF rc = -1 THEN UpInnerExcept(u, "Exception")
                  ELSE MkdirOutcome(u, rc)
    /\ UNCHANGED <<bvars, ks, term, fifo, sh>>

\* tar.add(tmp_file_path, arcname=safe_filename)
U_Tar ==
    /\ up.pc = "tar"
    /\ \E ok \in BOOLEAN :
         up' = IF ok THEN [up EXCEPT !.pc = "cp_open", !.archive = <<up.safe_filename>>]
               ELSE UpInnerExcept(up, "Exception")
    /\ UNCHANGED <<bvars, ks, term, fifo, sh>>

\* resp_cp = kubernetes.stream.stream(... tar xf - -C /tmp ...); the remote
\* command ends at the end of the archive, or only at the end of its input
\* (up.eof_only)
U_CpOpen ==
    /\ up.pc = "cp_open"
    /\ \E ok, eo \in BOOLEAN :
         up' = IF ok THEN [up EXCEPT !.pc = "cp_write", !.cp = OpenedExec,
                                     !.eof_only = eo]
               ELSE UpInnerExcept(up, "ApiException")
    /\ UNCHANGED <<bvars, ks, term, fifo, sh>>

\* one turn of the chunk loop: write_channel(STDIN_CHANNEL, data_chunk)
U_CpWrite ==
    /\ up.pc = "cp_write"
    /\ \E ok \in BOOLEAN :
         up' = IF up.written = up.chunks THEN [up EXCEPT !.pc = "cp_drain"]
               ELSE IF ok THEN [up EXCEPT !.written = @ + 1]
               ELSE UpInnerExcept(up, "Exception")
    /\ UNCHANGED <<bvars, ks, term, fifo, sh>>

\* the remote command has ended: it saw the end of the archive, or the end of
\* its input
RemoteCommandEnds(u) == ~u.eof_only \/ u.stdin_closed

\* while resp_cp.is_open(): update, peek, read -- until the remote command
\* ends and the stream closes, or a call on the stream raises.  Nothing
\* between the chunk loop and this loop touches the stream (tar_stream.close()
\* closes the local buffer), so up.stdin_closed stays false.
U_CpDrain ==
    /\ up.pc = "cp_drain"
    /\ \/ /\ RemoteCommandEnds(up)
          /\ up' = [up EXCEPT !.pc = "cp_close", !.cp.connected = FALSE]
       \/ up' = UpInnerExcept(up, "Exception")
    /\ UNCHANGED <<bvars, ks, term, fifo, sh>>

\* resp_cp.close(); resp_cp.returncode parsed from the error channel (or the
\* parse raises); the response
U_CpClose ==
    /\ up.pc = "cp_close"
    /\ \E rc \in ExitCodes \cup {-1} :
         LET u == [up EXCEPT !.cp.closed = TRUE, !.cp.connected = FALSE]
         IN up' = IF rc = -1 THEN UpInnerExcept(u, "Exception")
                  ELSE UpRespond([u EXCEPT !.rc = rc, !.rcAfterClose = u.cp.closed],
                                 UploadOutcome(rc))
    /\ UNCHANGED <<bvars, ks, term, fifo, sh>>

\* finally: api_client.close(); cleanup_temp_file(tmp_file_path) if it is set
U_Finally ==
    /\ up.pc = "finally"
    /\ up' = [up EXCEPT !.pc = "returned",
                        !.api_client = IF @ = "open" THEN "closed" ELSE @,
                        !.scratch = IF up.tmp_file_path /\ @ # "none" THEN "deleted" ELSE @]
    /\ UNCHANGED <<bvars, ks, term, fifo, sh>>

\* the route sends the response; the service is ready for the next upload
U_Return ==
    /\ up.pc = "returned"
    /\ up' = NoUpload
    /\ UNCHANGED <<bvars, ks, term, fifo, sh>>

(***************************************************************************)
(* One chunk of remote output on its way to the client: the stdout and     *)
(* stderr branches of _read_from_pod with _format_terminal_data.           *)
(***************************************************************************)
\* the longest chunk, in characters
MaxChunkLen == 4

ChunkAlphabet == {"a", LF, CR}

RECURSIVE ChunksUpTo(_)
ChunksUpTo(n) ==
    IF n = 0 THEN {<<>>}
    ELSE LET shorter == ChunksUpTo(n - 1)
         IN shorter \cup {Append(s, c) : s \in {x \in shorter : Len(x) = n - 1},
                                          c \in ChunkAlphabet}

\* what read_stdout() / read_stderr() can return and "if stdout_data:" lets by
Chunks == ChunksUpTo(MaxChunkLen) \ {<<>>}

\* str.endswith
endswith(s, suffix) ==
    /\ Len(s) >= Len(suffix)
    /\ SubSeq(s, Len(s) - Len(suffix) + 1, Len(s)) = suffix

\* data.replace("\n", "\r\n")
RECURSIVE replace_lf(_)
replace_lf(s) ==
    IF s = <<>> THEN <<>>
    ELSE (IF Head(s) = LF THEN <<CR, LF>> ELSE <<Head(s)>>) \o replace_lf(Tail(s))

format_terminal_data_unguarded(data) ==
    IF endswith(data, <<LF>>) THEN replace_lf(data) ELSE data

\* _format_terminal_data
format_terminal_data(data) ==
    IF ~endswith(data, <<CR, LF>>) /\ endswith(data, <<LF>>)
    THEN replace_lf(data)
    ELSE data

NoChunk == [pc |-> "idle", channel |-> "stdout", chunk |-> <<>>, sent |-> <<>>]

\* stdout_data = self._format_terminal_data(stdout_data); send_text(stdout_data)
RP_ForwardChunk(channel) ==
    /\ term.pc = "read"
    /\ term.channel = channel
    /\ term' = [term EXCEPT !.pc = "sent", !.sent = format_terminal_data(term.chunk)]
    /\ UNCHANGED <<bvars, ks, up, fifo, sh>>

RP_ForwardStdout == RP_ForwardChunk("stdout")
RP_ForwardStderr == RP_ForwardChunk("stderr")

(***************************************************************************)
(* The order of forwarding.  fifo holds the client messages in the order   *)
(* they arrived, the writes issued on the exec stream, the chunks read     *)
(* from it and the frames sent to the client, with the position of both    *)
(* pump loops.  Budgets and cleanup are left to the bridge above.          *)
(***************************************************************************)
\* client messages per run, chunks read per run, failing calls per run
MaxInbox == 3
MaxReads == 2
MaxFifoFaults == 1

FifoMessages == {Heartbeat, <<"a", LF, "b">>, <<"J_resize">>}
FifoChunks == {<<"a", LF>>}

NoFifo ==
    [arrived |-> <<>>, taken |-> 0, wpc |-> "idle", data |-> <<>>, issued |-> <<>>,
     read |-> <<>>, frames |-> <<>>, rpc |-> "idle", flt |-> 0]

\* a write of message n
Tagged(n, wr) == [i \in 1..Len(wr) |-> [n |-> n, w |-> wr[i]]]

Issue_lifo(log, n, wr) == Tagged(n, wr) \o log

\* resp.write_stdin / resp.write_channel: each call sends at once, behind
\* everything written before
Issue(log, n, wr) == log \o Tagged(n, wr)

\* the client sends a message; the socket keeps the order of arrival
F_ClientSend(m) ==
    /\ fifo.wpc # "idle"
    /\ Len(fifo.arrived) < MaxInbox
    /\ fifo' = [fifo EXCEPT !.arrived = Append(@, m)]
    /\ UNCHANGED <<bvars, ks, up, term, sh>>

\* data = await receive_text(): the oldest message not yet received; the
\* heartbeat is skipped
F_Recv ==
    /\ fifo.wpc = "recv"
    /\ fifo.taken < Len(fifo.arrived)
    /\ LET m == fifo.arrived[fifo.taken + 1]
       IN fifo' = [fifo EXCEPT !.taken = @ + 1, !.data = m,
                               !.wpc = IF IsHeartbeat(m) THEN "recv" ELSE "process"]
    /\ UNCHANGED <<bvars, ks, up, term, sh>>

\* await self._process_websocket_message(data, resp): all its writes, or the
\* first k of them and an exception; the loop then goes on or breaks
F_Process ==
    /\ fifo.wpc = "process"
    /\ LET r == ProcessWebsocketMessage(fifo.data, TRUE) IN
       \/ fifo' = [fifo EXCEPT !.issued = Issue(@, fifo.taken, r.writes),
                               !.wpc = IF IsConnectionError(r.raised)
                                       THEN "stopped" ELSE "recv"]
       \/ /\ fifo.flt < MaxFifoFaults
          /\ \E k \in 0..(Len(r.writes) - 1), e \in {"connection", "other"} :
               fifo' = [fifo EXCEPT
                          !.issued = Issue(@, fifo.taken, SubSeq(r.writes, 1, k)),
                          !.flt = @ + 1,
                          !.wpc = IF IsConnectionError(e) THEN "stopped" ELSE "recv"]
    /\ UNCHANGED <<bvars, ks, up, term, sh>>

\* if resp.peek_stdout(): stdout_data = resp.read_stdout() (and the same for
\* stderr): nothing there, or the next chunk of that channel
F_Read(here, channel, sending, next) ==
    /\ fifo.rpc = here
    /\ \/ fifo' = [fifo EXCEPT !.rpc = next]
       \/ /\ Len(fifo.read) < MaxReads
          /\ \E c \in FifoChunks :
               fifo' = [fifo EXCEPT !.read = Append(@, [ch |-> channel, chunk |-> c]),
                                    !.rpc = sending]
    /\ UNCHANGED <<bvars, ks, up, term, sh>>

F_ReadStdout == F_Read("stdout", "stdout", "send_out", "stderr")
F_ReadStderr == F_Read("stderr", "stderr", "send_err", "stdout")

\* await websocket.send_text(self._format_terminal_data(chunk)): the frame is
\* sent, or the send raises and the loop goes on or breaks
F_Send(sending, next) ==
    /\ fifo.rpc = sending
    /\ LET n == Len(fifo.read) IN
       \/ fifo' = [fifo EXCEPT
                     !.frames = Append(@, [n |-> n,
                                           data |-> format_terminal_data(fifo.read[n].chunk)]),
                     !.rpc = next]
       \/ /\ fifo.flt < MaxFifoFaults
          /\ \E e \in {"connection", "other"} :
               fifo' = [fifo EXCEPT !.flt = @ + 1,
                                    !.rpc = IF IsConnectionError(e) THEN "stopped"
                                            ELSE "stdout"]
    /\ UNCHANGED <<bvars, ks, up, term, sh>>

F_SentStdout == F_Send("send_out", "stderr")
F_SentStderr == F_Send("send_err", "stdout")

NoService ==
    /\ ks = KsIdle(TRUE, [p \in Pods |-> NoEntry], [p \in Pods |-> TRUE], 0)
    /\ up = NoUpload
    /\ term = NoChunk
    /\ fifo = NoFifo
    /\ sh = NoShared

(***************************************************************************)
(* The bridge on an open exec stream                                       *)
(***************************************************************************)
InitLocals(suppc) ==
    /\ task = [t \in Tasks |-> NotStarted]
    /\ rl = [last_heartbeat_time |-> 0, last_check_time |-> 0,
             data_received |-> FALSE, polled |-> FALSE, hb |-> FALSE,
             hbOut |-> "none"]
    /\ wl = [data |-> <<>>, waitStart |-> 0, lastInput |-> 0]
    /\ sup = [pc |-> suppc, waitStart |-> 0, pending |-> {}, awaiting |-> "read",
             timedOut |-> FALSE]
    /\ writes = <<>>
    /\ faults = 0

InitBridge ==
    /\ now = 0
    /\ cs = NewConnectionStatus(0)
    /\ resp = OpenStream
    /\ ws = AcceptedSocket
    /\ hc = [pc |-> "harness", pool |-> TRUE, k8s |-> TRUE, auditOpen |-> 0, auditClose |-> 0,
             closeEmitted |-> 0]
    /\ InitLocals("init")
    /\ NoService

PumpSteps ==
    \/ RP_Start \/ RP_Head \/ RP_Update \/ RP_Stdout \/ RP_Stderr
    \/ RP_SentStdout \/ RP_SentStderr \/ RP_Check \/ RP_Slept
    \/ WP_Start \/ WP_Head \/ (\E m \in BridgeMessages : WP_Recv(m)) \/ WP_Process
    \/ WP_RecvDisconnect \/ WP_RecvTimeout \/ WP_Slept
    \/ (\E t \in Tasks : CleanupPodStream(t))
    \/ (\E t \in Tasks : CleanupClosed(t))
    \/ (\E t \in Tasks : DeliverCancel(t))
    \/ SupStart \/ SupWake \/ SupCancel \/ SupAwaited

NextBridge == PumpSteps \/ RemoteExit \/ ClientDisconnect \/ Tick

SpecBridge == InitBridge /\ [][NextBridge]_vars

(***************************************************************************)
(* handle_connection: one accepted client connection                       *)
(***************************************************************************)
\* self.k8s_service.create_exec_stream(connection_info), called without
\* await: the call returns the coroutine object and runs none of its body
CreateExecStreamCall == CoroutineObject

\* db_service.log_terminal_connection: returns silently without a pool,
\* records the event, or raises DatabaseOperationError
DbOutcomes == IF hc.pool THEN {"ok", "fail"} ELSE {"nopool"}

HC_Accept ==
    /\ hc.pc = "accept"
    /\ ws' = AcceptedSocket
    /\ hc' = [hc EXCEPT !.pc = "log_open"]
    /\ UNCHANGED <<now, cs, resp, task, rl, wl, sup, writes, faults>>
    /\ UNCHANGED svars

\* the 'connection established' event, logged before the try block
HC_LogOpen ==
    /\ hc.pc = "log_open"
    /\ \E o \in DbOutcomes :
         hc' = [hc EXCEPT !.pc = IF o = "fail" THEN "raised" ELSE "try",
                          !.auditOpen = IF o = "ok" THEN @ + 1 ELSE @]
    /\ UNCHANGED <<now, cs, resp, ws, task, rl, wl, sup, writes, faults>>
    /\ UNCHANGED svars

\* the try block up to the call of _handle_communication
HC_Try ==
    /\ hc.pc = "try"
    /\ IF ~hc.k8s
       THEN /\ IF ws.peerGone
               THEN /\ ws' = ws
                    /\ hc' = [hc EXCEPT !.pc = "except"]
               ELSE /\ ws' = [ws EXCEPT !.diag = @ + 1]
                    /\ hc' = [hc EXCEPT !.pc = "nok8s_close"]
            /\ UNCHANGED <<cs, resp, sup>>
       ELSE /\ resp' = CreateExecStreamCall
            /\ cs' = NewConnectionStatus(now)
            /\ sup' = [sup EXCEPT !.pc = "init"]
            /\ hc' = [hc EXCEPT !.pc = "bridge"]
            /\ ws' = ws
    /\ UNCHANGED <<now, task, rl, wl, writes, faults>>
    /\ UNCHANGED svars

\* await websocket.close(); return
HC_NoK8sClose ==
    /\ hc.pc = "nok8s_close"
    /\ ws' = WsClose(ws)
    /\ hc' = [hc EXCEPT !.pc = "finally"]
    /\ UNCHANGED <<now, cs, resp, task, rl, wl, sup, writes, faults>>
    /\ UNCHANGED svars

\* except Exception: a diagnostic message if possible, then close
HC_Except ==
    /\ hc.pc = "except"
    /\ ws' = IF ws.client_state # "DISCONNECTED"
             THEN WsClose([ws EXCEPT !.diag = IF SendAccepted /\ ~ws.peerGone
                                              THEN @ + 1 ELSE @])
             ELSE ws
    /\ hc' = [hc EXCEPT !.pc = "finally"]
    /\ UNCHANGED <<now, cs, resp, task, rl, wl, sup, writes, faults>>
    /\ UNCHANGED svars

BridgeRaises_failed == \E t \in Tasks : task[t].failed

\* does _handle_communication raise the exception a pump ended with?  No: the
\* exception of a finished pump is never retrieved, and 'await task' of a
\* cancelled one sits in try / except CancelledError / except Exception
BridgeRaises == FALSE

\* _handle_communication has returned
HC_BridgeReturned ==
    /\ hc.pc = "bridge"
    /\ sup.pc = "returned"
    /\ hc' = [hc EXCEPT !.pc = IF BridgeRaises THEN "except" ELSE "finally"]
    /\ UNCHANGED <<now, cs, resp, ws, task, rl, wl, sup, writes, faults>>
    /\ UNCHANGED svars

\* finally: the 'connection closed' event, its failure logged and swallowed
HC_Finally ==
    /\ hc.pc = "finally"
    /\ \E o \in DbOutcomes :
         hc' = [hc EXCEPT !.pc = "returned",
                          !.closeEmitted = @ + 1,
                          !.auditClose = IF o = "ok" THEN @ + 1 ELSE @]
    /\ UNCHANGED <<now, cs, resp, ws, task, rl, wl, sup, writes, faults>>
    /\ UNCHANGED svars

InitConn ==
    /\ now = 0
    /\ cs = NoStatus
    /\ resp = NoStream
    /\ ws = NewSocket
    /\ \E p, k \in BOOLEAN :
         hc = [pc |-> "accept", pool |-> p, k8s |-> k, auditOpen |-> 0, auditClose |-> 0,
             closeEmitted |-> 0]
    /\ InitLocals("none")
    /\ NoService

NextConn ==
    \/ HC_Accept \/ HC_LogOpen \/ HC_Try \/ HC_NoK8sClose \/ HC_Except
    \/ HC_BridgeReturned \/ HC_Finally
    \/ SupStart \/ SupWake \/ SupCancel \/ SupAwaited
    \/ RP_Start \/ RP_Head \/ RP_OuterExcept \/ RP_SentDiag
    \/ WP_Start \/ WP_Head \/ (\E m \in BridgeMessages : WP_Recv(m)) \/ WP_Process
    \/ WP_RecvDisconnect \/ WP_Slept
    \/ (\E t \in Tasks : CleanupPodStream(t))
    \/ (\E t \in Tasks : DeliverCancel(t))
    \/ ClientDisconnect \/ Tick

SpecConn == InitConn /\ [][NextConn]_vars

(***************************************************************************)
(* The cluster adapter on its own                                          *)
(***************************************************************************)
\* the bridge is not running
NoBridge ==
    /\ now = 0
    /\ cs = NoStatus
    /\ resp = NoStream
    /\ ws = NewSocket
    /\ hc = [pc |-> "harness", pool |-> TRUE, k8s |-> TRUE, auditOpen |-> 0, auditClose |-> 0,
             closeEmitted |-> 0]
    /\ InitLocals("none")

\* after initialize() at application start-up: a client, an empty cache
InitK8s ==
    /\ NoBridge
    /\ \E pods \in [Pods -> BOOLEAN] :
         ks = KsIdle(TRUE, [p \in Pods |-> NoEntry], pods, 0)
    /\ up = NoUpload
    /\ term = NoChunk
    /\ fifo = NoFifo
    /\ sh = NoShared

NextK8s ==
    \/ (\E p \in Pods : K_CallCheck(p))
    \/ (\E p \in Pods : K_CallExec(p))
    \/ CES_Head \/ CPE_Head \/ CPE_Lookup \/ CPE_Reinit
    \/ CES_Checked \/ CES_Stream \/ CES_Reinit \/ CP_Respond \/ K_Return
    \/ (\E p \in Pods : PodChange(p))
    \/ KTick

SpecK8s == InitK8s /\ [][NextK8s]_vars

(***************************************************************************)
(* One upload at a time                                                    *)
(***************************************************************************)
InitUpload ==
    /\ NoBridge
    /\ ks = KsIdle(TRUE, [p \in Pods |-> NoEntry], [p \in Pods |-> TRUE], 0)
    /\ up = NoUpload
    /\ term = NoChunk
    /\ fifo = NoFifo
    /\ sh = NoShared

NextUpload ==
    \/ U_Call \/ U_Validate \/ U_Config \/ U_SaveCreate \/ U_SaveCopy
    \/ U_MkdirOpen \/ U_MkdirDrain \/ U_MkdirClose \/ U_Tar
    \/ U_CpOpen \/ U_CpWrite \/ U_CpDrain \/ U_CpClose
    \/ U_Finally \/ U_Return

SpecUpload == InitUpload /\ [][NextUpload]_vars

(***************************************************************************)
(* One chunk of remote output                                              *)
(***************************************************************************)
\* a chunk has been read from one of the two output sub-channels
InitTerm ==
    /\ NoBridge
    /\ ks = KsIdle(TRUE, [p \in Pods |-> NoEntry], [p \in Pods |-> TRUE], 0)
    /\ up = NoUpload
    /\ \E c \in Chunks, ch \in {"stdout", "stderr"} :
         term = [pc |-> "read", channel |-> ch, chunk |-> c, sent |-> <<>>]
    /\ fifo = NoFifo
    /\ sh = NoShared

NextTerm == RP_ForwardStdout \/ RP_ForwardStderr

SpecTerm == InitTerm /\ [][NextTerm]_vars

(***************************************************************************)
(* Both pumps on an open stream, with the histories of what they forwarded *)
(***************************************************************************)
InitFifo ==
    /\ NoBridge
    /\ ks = KsIdle(TRUE, [p \in Pods |-> NoEntry], [p \in Pods |-> TRUE], 0)
    /\ up = NoUpload
    /\ term = NoChunk
    /\ fifo = [NoFifo EXCEPT !.wpc = "recv", !.rpc = "stdout"]
    /\ sh = NoShared

NextFifo ==
    \/ (\E m \in FifoMessages : F_ClientSend(m))
    \/ F_Recv \/ F_Process
    \/ F_ReadStdout \/ F_ReadStderr \/ F_SentStdout \/ F_SentStderr

SpecFifo == InitFifo /\ [][NextFifo]_vars

(***************************************************************************)
(* Two sessions that create their exec streams with the shared client      *)
(***************************************************************************)
InitShared ==
    /\ NoBridge
    /\ ks = KsIdle(TRUE, [p \in Pods |-> NoEntry], [p \in Pods |-> TRUE], 0)
    /\ up = NoUpload
    /\ term = NoChunk
    /\ fifo = NoFifo
    /\ sh = NoShared

NextShared ==
    \E s \in Sessions :
       \/ SH_Call(s) \/ SH_Executor(s) \/ SH_Resume(s)
       \/ SH_ReinitClear(s) \/ SH_ReinitInit(s) \/ SH_Finish(s)

SpecShared == InitShared /\ [][NextShared]_vars

(***************************************************************************)
(* _process_websocket_message on one message                               *)
(***************************************************************************)
\* the longest message text, in symbols
MaxLen == 4

Alphabet == {"a", "b", LF, CR, "X101", "J_resize"}

RECURSIVE StringsUpTo(_)
StringsUpTo(n) ==
    IF n = 0 THEN {<<>>}
    ELSE LET shorter == StringsUpTo(n - 1)
         IN shorter \cup {Append(s, c) : s \in {x \in shorter : Len(x) = n - 1}, c \in Alphabet}

\* every text the client can send that is not the heartbeat byte
Messages == StringsUpTo(MaxLen) \cup {<<t>> : t \in JsonTokens}

\* the pump has a non-heartbeat message in hand and is about to process it
InitMsg ==
    /\ now = 0
    /\ cs = [NewConnectionStatus(0) EXCEPT !.last_activity_time = 0]
    /\ \E r \in {OpenStream, [OpenStream EXCEPT !.peerGone = TRUE],
                 [OpenStream EXCEPT !.open = FALSE]} : resp = r
    /\ ws = AcceptedSocket
    /\ hc = [pc |-> "harness", pool |-> TRUE, k8s |-> TRUE, auditOpen |-> 0, auditClose |-> 0,
             closeEmitted |-> 0]
    /\ task = [t \in Tasks |-> [Created EXCEPT !.pc = IF t = "write" THEN "process" ELSE "sleep"]]
    /\ rl = [last_heartbeat_time |-> 0, last_check_time |-> 0,
             data_received |-> FALSE, polled |-> TRUE, hb |-> FALSE,
             hbOut |-> "none"]
    /\ \E m \in Messages : wl = [data |-> m, waitStart |-> 0, lastInput |-> 0]
    /\ sup = [pc |-> "wait", waitStart |-> 0, pending |-> {}, awaiting |-> "read",
             timedOut |-> FALSE]
    /\ writes = <<>>
    /\ faults = 0
    /\ NoService

NextMsg == WP_Process

SpecMsg == InitMsg /\ [][NextMsg]_vars

(***************************************************************************)
(* Properties                                                              *)
(***************************************************************************)
WsClosed == ws.application_state = "DISCONNECTED" \/ ws.client_state = "DISCONNECTED"

\* both pumps have stopped and both endpoints are closed
Terminated ==
    /\ \A t \in Tasks : IsDone(t)
    /\ resp.kind = "stream" /\ ~resp.open
    /\ WsClosed

\* the session was started: a status exists and the pumps were created
Started == task["read"].pc # "none"

\* C1: last_activity_time changes only in the step in which the client->remote
\* pump receives a client message other than the heartbeat byte, and then to
\* the current time; every other step leaves it unchanged.
C1_ActivityOnlyOnClientInput ==
    [][cs'.last_activity_time # cs.last_activity_time =>
         /\ task["write"].pc = "recv"
         /\ task'["write"].pc = "process"
         /\ wl'.data # Heartbeat
         /\ cs'.last_activity_time = now]_vars

\* a heartbeat was received and a keep-alive was written after the last
\* recorded activity, and the recorded activity is still the earlier one
C1_Witness ==
    /\ cs.last_activity_time > cs.connection_start_time
    /\ wl.data = Heartbeat
    /\ rl.hb /\ rl.last_heartbeat_time > cs.last_activity_time

\* C2: once the time since last_activity_time exceeds idle_timeout by more than
\* one re-validation interval, the session is terminated: both pumps stopped,
\* both endpoints closed.
C2_IdleTimeoutTerminates ==
    now - cs.last_activity_time > cs.idle_timeout + CheckInterval + TickSlack
        => Terminated

\* a session without client input, ended by the remote->client pump before the
\* absolute budget was used up
C2_Witness ==
    /\ Terminated
    /\ ~cs.is_active
    /\ cs.last_activity_time = cs.connection_start_time
    /\ now - cs.connection_start_time < cs.connection_timeout

\* C3: no session is still running once the time since connection_start_time
\* exceeds connection_timeout plus one re-validation interval, whatever the
\* client sends.
C3_AbsoluteTimeoutTerminates ==
    now - cs.connection_start_time > cs.connection_timeout + CheckInterval
        => Terminated

\* a session with recent client activity, ended when the absolute budget ran out
C3_Witness ==
    /\ Terminated
    /\ now - cs.connection_start_time >= cs.connection_timeout
    /\ now - cs.last_activity_time <= cs.idle_timeout
    /\ cs.last_activity_time > cs.connection_start_time

\* the message in hand was processed without an exception
Processed == task["write"].pc = "head"

IsResizeEnvelope(m) ==
    m.ok /\ m.isdict /\ m.type = "resize" /\ m.cols.t = "int" /\ m.rows.t = "int"

\* C4: a resize object with integer cols and rows, processed while the stream
\* is open, gives exactly one write, on the resize channel, with Width = cols
\* and Height = rows, and so no write to stdin.
C4_ResizeIsOneControlWrite ==
    LET m == json_loads(wl.data) IN
    (Processed /\ resp.open /\ IsResizeEnvelope(m))
        => writes = <<[ch |-> "resize", data |-> <<>>, w |-> m.cols.v, h |-> m.rows.v]>>

C4_Witness ==
    /\ Processed /\ resp.open
    /\ wl.data = <<"J_resize">>
    /\ Len(writes) = 1 /\ writes[1].ch = "resize" /\ writes[1].w = 120 /\ writes[1].h = 40

\* C5: a raw payload that is long or contains a newline is written as its lines
\* L1..Ln with one newline write between consecutive lines: 2n-1 writes, the
\* lines at the odd places, the n-1 newlines at the even places, none at the end.
C5_PasteLineByLine ==
    LET m == json_loads(wl.data)
        lines == splitlines(wl.data)
        n == Len(lines)
    IN (/\ Processed /\ resp.open
        /\ ~(m.ok /\ m.isdict /\ m.type = "resize")
        /\ (StrLen(wl.data) > PasteThreshold \/ Contains(wl.data, LF)))
       => /\ n >= 1
          /\ Len(writes) = 2 * n - 1
          /\ \A i \in 1..n : writes[2 * i - 1] = [ch |-> "stdin", data |-> lines[i], w |-> 0, h |-> 0]
          /\ \A i \in 1..(n - 1) : writes[2 * i] = [ch |-> "stdin", data |-> <<LF>>, w |-> 0, h |-> 0]

\* the paste "a\nb\n" was written as "a", newline, "b"
C5_Witness ==
    /\ Processed /\ resp.open
    /\ wl.data = <<"a", LF, "b", LF>>
    /\ writes = <<StdinWrite(<<"a">>), StdinWrite(<<LF>>), StdinWrite(<<"b">>)>>

\* C6: close() is invoked at most once on the exec stream and at most once on
\* the client connection, and no close fails on an endpoint already closed.
C6_CloseAtMostOnce ==
    /\ resp.closeCalls <= 1
    /\ ws.closeCalls <= 1
    /\ ws.closeErrors = 0

\* C7: when handle_connection has returned after a session that was started,
\* the exec stream is closed and the client connection is closed.
C7_BothEndpointsClosedOnReturn ==
    (hc.pc = "returned" /\ Started)
        => (resp.kind = "stream" /\ ~resp.open /\ WsClosed)

\* C8: when _handle_communication has returned, neither pump is still running;
\* a pump that was pending when the first one finished was cancelled and awaited.
C8_SupervisorAwaitsPumps ==
    sup.pc = "returned" => \A t \in Tasks : IsDone(t)

\* the supervisor returned after cancelling a pump that was still running
C8_Witness ==
    /\ sup.pc = "returned"
    /\ \E t \in Tasks : task[t].cancelling

\* C9: the pumps are started only with an exec stream that was opened.
C9_ActiveOnlyWithOpenedStream ==
    Started => resp.kind = "stream"

\* C10: a failure to record an audit event never leaves handle_connection as
\* an exception.
C10_AuditFailureNeverPropagates ==
    hc.pc # "raised"

(***************************************************************************)
(* The cluster adapter                                                     *)
(***************************************************************************)
\* check_pod_exists has just returned or raised
CheckReturned == ks.pc = "ces_checked" \/ (ks.pc = "done" /\ ks.call = "check")

\* C11: during one create_exec_stream call, the existence check included, the
\* client is reinitialized at most once.
C11_AtMostOneReinitialization ==
    ks.call = "exec" => ks.reinits <= 1

\* C12: in create_exec_stream no stream is requested before an existence
\* check answered "present", and once the check reports the pod absent the
\* call ends at once with PodNotFoundError: no stream request, no
\* reinitialization and no retry follow the report.
C12_AbsentPodFailsWithoutStream ==
    /\ [](ks.pc = "ces_stream" => (ks.checks >= 1 /\ ks.ret = "True"))
    /\ [][(/\ ks.call = "exec" /\ ks.pc = "ces_checked"
           /\ ks.exc = "none" /\ ks.ret = "False"
           /\ ks'.pc # ks.pc)
          => (/\ ks'.pc = "done" /\ ks'.result = "PodNotFoundError"
              /\ ks'.streamReqs = ks.streamReqs
              /\ ks'.reinits = ks.reinits
              /\ ks'.ces_retry = ks.ces_retry
              /\ ks'.lookups = ks.lookups)]_vars

\* an absent pod, a fresh lookup, PodNotFoundError and nothing else
C12_Witness ==
    /\ ks.call = "exec" /\ ks.pc = "done" /\ ks.result = "PodNotFoundError"
    /\ ks.last = "404" /\ ks.streamReqs = 0 /\ ks.reinits = 0

\* C13 as stated: every call made less than the TTL after the entry's time
\* returns the stored value without a lookup.
C13_EveryCallWithinTTLReturnsStored ==
    (CheckReturned /\ ks.entry0.present /\ ks.current_time - ks.entry0.time < CacheTTL)
        => (/\ ks.exc = "none"
            /\ ks.ret = (IF ks.entry0.result THEN "True" ELSE "False")
            /\ ks.lookups = 0)

\* C13: a check_pod_exists call made while the client is initialised and less
\* than the TTL after the time recorded in the key's entry (the start of the
\* call that stored it) returns the stored value, positive or negative, with no
\* lookup and an unchanged cache, whatever the cluster holds by then; a call
\* made with no entry or an entry at least TTL old performs a lookup, and when
\* the lookup answers, the entry becomes (answer, start of this call).
C13_CacheWithinTTL ==
    (CheckReturned /\ ks.core0)
        => IF ks.entry0.present /\ ks.current_time - ks.entry0.time < CacheTTL
           THEN /\ ks.hit
                /\ ks.exc = "none"
                /\ ks.ret = (IF ks.entry0.result THEN "True" ELSE "False")
                /\ ks.lookups = 0
                /\ ks.cache = ks.cache0
           ELSE /\ ~ks.hit
                /\ ks.lookups >= 1
                /\ ks.exc = "none" =>
                     /\ ks.last \in {"found", "404"}
                     /\ ks.ret = (IF ks.last = "found" THEN "True" ELSE "False")
                     /\ ks.cache[ks.key] = [present |-> TRUE, result |-> ks.last = "found",
                                            time |-> ks.current_time]

\* a cached "present" is returned for a pod deleted in the meantime
C13_Witness ==
    /\ CheckReturned /\ ks.core0 /\ ks.hit
    /\ ks.ret = "True" /\ ~ks.pods[ks.key]
    /\ ks.current_time > ks.entry0.time

\* C14: when the lookup of check_pod_exists fails for a reason other than
\* "not found", the call raises K8sConnectionError and the key's cache entry
\* is what it was when the call began.
C14_LookupFailureStoresNothing ==
    (CheckReturned /\ ks.last \in LookupFailures)
        => (/\ ks.exc = "K8sConnectionError"
            /\ ks.cache[ks.key] = ks.entry0)

\* an expired entry survives a failed lookup
C14_Witness ==
    /\ CheckReturned /\ ks.last = "api" /\ ks.exc = "K8sConnectionError"
    /\ ks.entry0.present /\ ks.cache[ks.key] = ks.entry0
    /\ ks.current_time - ks.entry0.time >= CacheTTL

(***************************************************************************)
(* The upload                                                              *)
(***************************************************************************)
UploadStreams == {up.mkdir, up.cp}

\* C15: a filename that is empty or holds "/" or "\" is answered with the
\* filename validation error and no scratch file, no client and no exec stream
\* ever exists for it; any other filename passes validation and, once the
\* archive is built, is the name of its single entry.
C15_FilenameValidation ==
    (up.pc \notin {"idle", "validate"})
        => IF up.filename = <<>> \/ Contains(up.filename, "/") \/ Contains(up.filename, "BS")
           THEN /\ up.scratch = "none" /\ ~up.tmp_file_path
                /\ \A x \in UploadStreams : ~x.opened
                /\ up.archive = <<>>
                /\ up.response = [kind |-> "error", status_code |-> 400,
                                  error |-> "FileValidationError", exit |-> -1]
           ELSE /\ up.response.error # "FileValidationError"
                /\ up.safe_filename = up.filename
                /\ up.archive \in {<<>>, <<up.filename>>}

\* "a/." was rejected before anything was written or opened
C15_Witness ==
    /\ up.pc = "returned" /\ up.filename = <<"a", "/", ".">>
    /\ up.response.error = "FileValidationError" /\ up.scratch = "none"

\* C16: when upload_file returns, no scratch file it created is left on disk.
C16_ScratchFileDeleted ==
    up.pc = "returned" => up.scratch \in {"none", "deleted"}

\* C17: upload_file answers success exactly when the exit code of the
\* extraction command was read, after close() of its stream, as zero; a
\* non-zero code gives an error response that carries the code.
C17_SuccessIffExitZero ==
    up.pc = "returned"
        => /\ up.response.kind = "success"
                <=> (up.rc = 0 /\ up.rcAfterClose /\ up.cp.closed)
           /\ up.rc \notin {-1, 0}
                => (/\ up.response.kind = "error"
                    /\ up.response.exit = up.rc
                    /\ up.rcAfterClose)

\* tar ended with code 2: an error response with exit code 2
C17_Witness ==
    /\ up.pc = "returned" /\ up.rc = 2
    /\ up.response.kind = "error" /\ up.response.exit = 2 /\ up.cp.closed

\* C18: when upload_file returns, close() has been called on every exec
\* stream it opened.
C18_StreamsClosedOnReturn ==
    up.pc = "returned" => \A x \in UploadStreams : x.opened => x.closed

(***************************************************************************)
(* Remote output and client messages                                       *)
(***************************************************************************)
\* every LF not right after a CR becomes CR LF; everything else stays
RECURSIVE NormalizeFrom(_, _)
NormalizeFrom(s, afterCR) ==
    IF s = <<>> THEN <<>>
    ELSE (IF Head(s) = "LF" /\ ~afterCR THEN <<"CR", "LF">> ELSE <<Head(s)>>)
         \o NormalizeFrom(Tail(s), Head(s) = "CR")

\* C19: the text sent for a chunk is the chunk with every bare LF replaced by
\* CR LF and every CR LF pair kept.
C19_LineEndingsNormalized ==
    term.pc = "sent" => term.sent = NormalizeFrom(term.chunk, FALSE)

\* C20: a non-heartbeat message processed on an open stream gives one resize
\* write when it is a resize object with integer cols and rows, and otherwise
\* at least one write, all of them to stdin: it is never dropped.
C20_EveryMessageForwarded ==
    (task["write"].pc # "process" /\ resp.open /\ ~resp.peerGone)
        => LET m == json_loads(wl.data) IN
           IF IsResizeEnvelope(m)
           THEN Len(writes) = 1 /\ writes[1].ch = "resize"
           ELSE writes # <<>> /\ \A i \in 1..Len(writes) : writes[i].ch = "stdin"

(***************************************************************************)
(* Failures and timeouts of a session                                      *)
(***************************************************************************)
\* C21: over the lifetime of one connection the client is sent at most one
\* diagnostic message (the "Kubernetes not loaded" text, the read pump's
\* error text or the handler's error text).
C21_AtMostOneDiagnostic ==
    ws.diag <= 1

\* the remote->client pump failed, told the client once, and the handler
\* returned without a second message
C21_Witness ==
    /\ hc.pc = "returned" /\ ws.diag = 1
    /\ task["read"].failed /\ IsDone("write")

\* C22: GET /connect answers 404 when the existence check reports the pod
\* absent, 503 on a cluster connection error, and 500 only on other errors.
C22_ConnectStatusCodes ==
    (ks.call = "check" /\ ks.http # 0) =>
        ks.http = CASE ks.result = "True" -> 200
                    [] ks.result = "False" -> 404
                    [] ks.result = "K8sConnectionError" -> 503
                    [] OTHER -> 500

\* C23: heartbeat messages of the client, however often they arrive, do not
\* postpone idle termination: when the last message received was a heartbeat
\* and the client's last other input (or the start of the session) lies back
\* more than idle_timeout plus one re-validation interval, the session is
\* terminated.
C23_HeartbeatsDoNotPostponeIdle ==
    (/\ Started
     /\ wl.data = Heartbeat
     /\ now - wl.lastInput > cs.idle_timeout + CheckInterval + TickSlack)
        => Terminated

\* only heartbeats came, the last one so late that the client->remote pump's
\* own receive bound never expired; the remote->client pump ended the session
C23_Witness ==
    /\ Terminated /\ ~cs.is_active
    /\ wl.data = Heartbeat /\ wl.lastInput = 0
    /\ wl.waitStart > cs.idle_timeout
    /\ now - cs.connection_start_time < cs.connection_timeout

\* C24: the supervisor does not wait longer than connection_timeout; when
\* the wait ran out with neither pump finished, each pump is still to be
\* cancelled, or was cancelled, or has stopped, and the supervisor returns only
\* after both have stopped and both endpoints are closed.
C24_SupervisorTimeoutEndsSession ==
    /\ sup.pc = "wait" => now - sup.waitStart <= cs.connection_timeout
    /\ (sup.timedOut /\ sup.pc \in {"loop", "await"}) =>
           \A t \in Tasks : \/ t \in sup.pending
                            \/ task[t].cancelReq \/ task[t].cancelling
                            \/ IsDone(t)
    /\ (sup.timedOut /\ sup.pc = "returned") => Terminated

\* the wait ran out, both pumps were cancelled in their waits, and the
\* supervisor has returned
C24_Witness ==
    /\ sup.timedOut /\ sup.pc = "returned"
    /\ \A t \in Tasks : task[t].cancelling
    /\ Terminated
    /\ now - sup.waitStart = cs.connection_timeout

\* a pump leaves its loop in this step because it found a budget exceeded:
\* the remote->client pump at its periodic check, the client->remote pump
\* after a processed message or when its receive wait ran out (not a
\* cancellation, a disconnect, a closed stream or an exception)
LeavesOnTimeout(t) ==
    /\ task'[t].pc = "cleanup"
    /\ task'[t].cancelling = task[t].cancelling
    /\ ws' = ws
    /\ resp.kind = "stream" /\ resp.open /\ ~resp.peerGone
    /\ ~CheckConnectionTimeout(cs, now)
    /\ \/ t = "read" /\ task[t].pc = "check"
       \/ /\ t = "write" /\ task[t].pc = "process"
          /\ ProcessWebsocketMessage(wl.data, TRUE).raised = "none"
       \/ /\ t = "write" /\ task[t].pc = "recv"
          /\ now - wl.waitStart >= ReceiveTimeout

\* C25: a pump that finds the idle or the absolute budget exceeded sets
\* is_active to false before it leaves its loop.
C25_TimeoutClearsIsActive ==
    [][\A t \in Tasks : LeavesOnTimeout(t) => ~cs'.is_active]_vars

\* C26: a client message that is not a resize object with integer cols and
\* rows (invalid JSON, JSON that is no object, an object of another type, a
\* resize object with cols or rows missing or no integers), processed on an
\* open stream within both budgets, does not end the client->remote pump: the
\* pump goes on to its next iteration.
C26_MalformedEnvelopeKeepsPump ==
    (/\ task["write"].pc # "process"
     /\ resp.open /\ ~resp.peerGone
     /\ ~IsResizeEnvelope(json_loads(wl.data)))
        => task["write"].pc \in {"head", "errsleep"}

\* C27: when the 30 s wait for the next client message runs out, the
\* client->remote pump goes back to waiting if and only if neither budget is
\* exceeded, the remote stream is open and the client is connected; otherwise
\* it leaves its loop.  The step changes neither endpoint nor the status.
C27_ReceiveTimeoutContinuesIff ==
    [][(/\ task["write"].pc = "recv" /\ task'["write"].pc # "recv"
        /\ now - wl.waitStart >= ReceiveTimeout
        /\ task'["write"].cancelling = task["write"].cancelling
        /\ ws' = ws)
       => /\ task'["write"].pc \in {"head", "cleanup"}
          /\ task'["write"].pc = "head" <=>
                (/\ CheckConnectionTimeout(cs, now)
                 /\ resp.open
                 /\ ws.client_state = "CONNECTED")
          /\ UNCHANGED <<cs, resp, wl>>]_vars

\* no client message ever came, the wait ran out, and the pump is back at the
\* head of its loop with the session untouched
C27_Witness ==
    /\ task["write"].pc = "head" /\ ~task["write"].cancelling
    /\ wl.data = <<>>
    /\ now - wl.waitStart >= ReceiveTimeout
    /\ cs.is_active /\ resp.open
    /\ ws.application_state = "CONNECTED" /\ ws.client_state = "CONNECTED"

\* C28: an error raised inside a pump's loop ends that pump: a pump whose
\* inner except clause has caught an error (it is in that clause's 0.1 s
\* sleep) does not go round its loop again.
C28_LoopErrorEndsPump ==
    [][\A t \in Tasks :
         task[t].pc = "errsleep" => task'[t].pc \in {"errsleep", "cleanup", "done"}]_vars

\* C29: at the end of an iteration of the remote->client pump a heartbeat is
\* due exactly when more than 15 s have passed since the previous one; the
\* empty stdin write is issued only on an open stream and is skipped on a
\* closed one, the time of the heartbeat is renewed either way, and the pump
\* leaves its loop in that step only for an exceeded budget, never for a
\* failed heartbeat write.
C29_RemoteHeartbeat ==
    [][(task["read"].pc = "check" /\ task'["read"].pc # "check")
       => LET beat == now - rl.last_heartbeat_time > HeartbeatInterval
              expired == /\ now - rl.last_check_time > CheckInterval
                         /\ ~CheckConnectionTimeout(cs, now)
          IN IF expired
             THEN task'["read"].pc = "cleanup"
             ELSE /\ task'["read"].pc = "sleep"
                  /\ rl'.hbOut # "none" <=> beat
                  /\ rl'.hbOut = "skipped" <=> (beat /\ ~resp.open)
                  /\ rl'.hbOut = "swallowed" => resp.peerGone
                  /\ rl'.last_heartbeat_time = IF beat THEN now ELSE rl.last_heartbeat_time
                  /\ UNCHANGED <<cs, resp, ws>>]_vars

\* a heartbeat write failed, and the pump went into its next iteration
C29_Witness ==
    /\ task["read"].pc = "update"
    /\ rl.hbOut = "swallowed"
    /\ cs.is_active

\* the writes issued for message n, in the order they were issued
WritesOf(n) ==
    LET sel == SelectSeq(fifo.issued, LAMBDA x : x.n = n)
    IN [i \in 1..Len(sel) |-> sel[i].w]

IsPrefix(s, t) == Len(s) <= Len(t) /\ SubSeq(t, 1, Len(s)) = s

\* C30: forwarding is first-in-first-out in both directions: the frames sent
\* to the client are chunks read from the stream, in the order they were
\* read; the writes on the stream follow the arrival order of the client
\* messages that caused them, no write of a later message coming before a
\* write of an earlier one, and the writes of one message are (the first of)
\* the writes that message calls for, in their order.
C30_FifoBothDirections ==
    /\ \A i, j \in 1..Len(fifo.frames) :
         i < j => fifo.frames[i].n < fifo.frames[j].n
    /\ \A i \in 1..Len(fifo.frames) :
         /\ fifo.frames[i].n \in 1..Len(fifo.read)
         /\ fifo.frames[i].data = format_terminal_data(fifo.read[fifo.frames[i].n].chunk)
    /\ \A i, j \in 1..Len(fifo.issued) :
         i < j => fifo.issued[i].n <= fifo.issued[j].n
    /\ \A n \in 1..Len(fifo.arrived) :
         IF n > fifo.taken \/ IsHeartbeat(fifo.arrived[n]) THEN WritesOf(n) = <<>>
         ELSE IsPrefix(WritesOf(n), ProcessWebsocketMessage(fifo.arrived[n], TRUE).writes)

\* a pasted text, a resize and the text again arrived in that order: the three
\* writes of the first, the resize, then the three writes of the second; and
\* two chunks went out as read
C30_Witness ==
    /\ fifo.arrived = << <<"a", LF, "b">>, <<"J_resize">>, <<"a", LF, "b">> >>
    /\ Len(fifo.issued) = 7
    /\ fifo.issued[4].w.ch = "resize" /\ fifo.issued[4].n = 2
    /\ fifo.issued[5].n = 3
    /\ Len(fifo.frames) = 2

(***************************************************************************)
(* Audit, upload steps, the shared cluster client                          *)
(***************************************************************************)
\* C31: for an accepted connection the 'connection closed' event is emitted
\* exactly once, and only after both pumps have stopped and both endpoints
\* are closed.
C31_CloseAuditOnceAfterTeardown ==
    /\ hc.closeEmitted <= 1
    /\ hc.pc \in {"returned", "raised"} => hc.closeEmitted = 1
    /\ hc.closeEmitted > 0 =>
         /\ \A t \in Tasks : task[t].pc \in {"none", "done"}
         /\ WsClosed
         /\ resp.kind = "stream" => ~resp.open

\* C32: a non-zero exit code of the directory-creation command does not
\* abort the upload: once the call has answered, either a later step raised
\* (an error without exit code), or the archive was built, the extraction
\* stream was opened and given every chunk, and the answer is the one the
\* extraction command's exit code calls for.
C32_MkdirFailureDoesNotAbort ==
    (up.mkdir_rc > 0 /\ up.response # NoResponse) =>
        IF up.rc = -1
        THEN /\ up.response.kind = "error" /\ up.response.exit = -1
             /\ up.response.error \in {"Exception", "ApiException"}
        ELSE /\ up.archive # <<>>
             /\ up.cp.opened /\ up.written = up.chunks
             /\ up.response = UploadOutcome(up.rc)

\* mkdir exited with a non-zero code and the upload succeeded
C32_Witness ==
    /\ up.pc = "returned"
    /\ up.mkdir_rc > 0 /\ up.rc = 0
    /\ up.response = SuccessResponse

\* C33: when the drain loop of the extraction stream starts, every chunk has
\* been written and the writable side of the stream has been closed, so a
\* remote command that ends at the end of its input does end.
C33_StdinClosedBeforeDrain ==
    up.pc = "cp_drain" =>
        /\ up.written = up.chunks
        /\ up.stdin_closed
        /\ RemoteCommandEnds(up)

\* C35: only KubernetesService.initialize / reinitialize install the
\* process-wide configuration of the cluster client; an upload request
\* leaves it as the adapter installed it.
C35_OnlyAdapterWritesConfig ==
    sh.config_writer = "adapter"

\* C34: at most one reinitialization of the cluster client is in progress
\* at any time, and the steps of a reinitialization leave the exec stream of
\* every other session as it is.
C34_ReinitializationSerialized ==
    /\ [](Cardinality({s \in Sessions : sh.call[s].pc \in ReinitPCs}) <= 1)
    /\ [][\A r, s \in Sessions :
            (r # s /\ sh.call[r].pc \in ReinitPCs /\ sh'.call[r] # sh.call[r])
                => sh'.call[s].stream = sh.call[s].stream]_vars

\* one session holds an open stream while another is in the middle of
\* reinitialize()
C34_Witness ==
    \E r, s \in Sessions :
       /\ sh.call[r].pc = "reinit_init" /\ ~sh.core_v1
       /\ sh.call[s].stream = "open"

\* C40: a stream creation running in the executor thread never finds core_v1
\* unset because another request is inside reinitialize().
C40_CreationNeverSeesUnsetClient ==
    \A s \in Sessions : sh.call[s].exec # "AttributeError"

\* C36: no write is issued to an exec stream that is not open: a step that
\* issues stdin or resize writes for a client message, and a step that
\* writes the heartbeat, starts in a state where the stream is open.
C36_NoWriteToClosedStream ==
    [][/\ (writes' # writes /\ writes' # <<>>) => (resp.kind = "stream" /\ resp.open)
       /\ (/\ task["read"].pc = "check"
           /\ rl'.last_heartbeat_time # rl.last_heartbeat_time
           /\ rl'.hbOut \in {"sent", "swallowed"})
             => (resp.kind = "stream" /\ resp.open)]_vars

\* the client->remote pump has written for a message, the stream was closed
\* after that, and the other pump left its heartbeat out
C36_Witness ==
    /\ writes # <<>>
    /\ resp.kind = "stream" /\ ~resp.open
    /\ rl.hbOut = "skipped"

\* the data of the stdin writes of a sequence of writes, joined in order
RECURSIVE StdinData(_)
StdinData(wr) ==
    IF wr = <<>> THEN <<>>
    ELSE (IF Head(wr).ch = "stdin" THEN Head(wr).data ELSE <<>>) \o StdinData(Tail(wr))

\* C37: for a client message that is no resize request, processed on a
\* stream that is and stays open, the stdin writes joined in order are the
\* text of the message, character for character.
C37_WritesEqualPayload ==
    (/\ task["write"].pc # "process"
     /\ resp.kind = "stream" /\ resp.open /\ ~resp.peerGone
     /\ LET message == json_loads(wl.data)
        IN ~(message.ok /\ message.isdict /\ message.type = "resize"))
        => StdinData(writes) = wl.data

\* C38: _format_terminal_data applied to its own result returns that result
\* unchanged: what was sent for a chunk is a fixed point of the function.
C38_FormatIdempotent ==
    term.pc = "sent" =>
        format_terminal_data(format_terminal_data(term.chunk))
            = format_terminal_data(term.chunk)

\* a chunk the function rewrote, with a line end inside that was CR LF already
C38_Witness ==
    /\ term.pc = "sent"
    /\ term.sent # term.chunk
    /\ \E i \in 1..(Len(term.chunk) - 2) : term.chunk[i] = CR /\ term.chunk[i + 1] = LF

\* C39: no remote output is dropped while the session continues: whenever
\* the remote->client pump is back at reading, every chunk it read so far
\* has been sent to the client.
C39_NoChunkDroppedWhilePumping ==
    fifo.rpc \in {"stdout", "stderr"} =>
        \A n \in 1..Len(fifo.read) :
            \E i \in 1..Len(fifo.frames) : fifo.frames[i].n = n

====
